---- MODULE Spec2Model ----
(***************************************************************************)
(* Verification model of axe-auto-reporter-web.                            *)
(*                                                                         *)
(*   Spec         the audit run of script/axe-auto-reporter.mjs: the       *)
(*                global p-limit gate, the per-domain p-limit gates, the   *)
(*                per-domain delay and processUrl with its cleanup.        *)
(*   SpecResolve  the sitemap resolution of script/generate-url-list.mjs.  *)
(***************************************************************************)
EXTENDS Integers, Sequences, FiniteSets, TLC

(***************************************************************************)
(* Bounds of the model.                                                    *)
(***************************************************************************)
\* Longest URL list of a run.
MaxUrls == 3
\* Largest delayBetweenRequests, in clock ticks.
MaxDelay == 1
\* Oversize responses the environment sends during one run.
MaxBigResponses == 1
\* Operations of the browser or the file system that fail during one run.
MaxFaults == 1

\* Largest maxPages of a resolution.
MaxPages == 3
\* Longest list of entries in one sitemap document.
MaxEntries == 2

\* Hostnames of the URLs of a run.
Hosts == {"a.test", "b.test"}
\* Values tried for concurrency and for maxConcurrentPerDomain.
LimitChoices == {1, 2}

VARIABLES
    \* ---- audit run (axe-auto-reporter.mjs) ----
    cfg,                \* the configuration of the run
    urls,               \* the filtered URL list: urls[i] is the hostname of URL i
    pc,                 \* pc[i]: where the task of URL i stands
    domainQueues,       \* per hostname: the tasks waiting in its p-limit queue
    domainLastRequest,  \* per hostname: ticks since the stored last-request time
    timer,              \* timer[i]: ticks left of the setTimeout of task i
    page,               \* page[i]: the browser page created for URL i
    pageVar,            \* pageVar[i]: processUrl's local `page` is set
    handlers,           \* handlers[i]: the response listener is attached
    pageTimeout,        \* pageTimeout[i]: the navigation timeout set on page i
    gotoTimeout,        \* gotoTimeout[i]: the timeout page.goto started under (history)
    ret,                \* ret[i]: the value processUrl is about to return
    results,            \* results[i]: how the task's promise settled
    files,              \* artifacts written: <<i, "json">>, <<i, "image">>
    bigResponse,        \* URLs whose page received an oversize response
    faults,             \* failed browser / file-system operations so far
    proc,               \* the reporter process
    browser,            \* the puppeteer browser
    successful,         \* the final counts
    failed,
    \* ---- sitemap resolution (generate-url-list.mjs) ----
    sitemapUrl,         \* runtimeSettings.sitemapUrl
    limit,              \* runtimeSettings.maxPages
    phase,              \* where main() stands
    visitedSitemaps,    \* the module's Set of sitemap URLs
    collected,          \* main's array of page URLs
    stack,              \* the pending calls of collectUrlsFromSitemap
    fetched,            \* fetched[u]: how often fetch(u) was called (history)
    seenLocations,      \* page URLs that passed isHttpUrl in a fetched urlset (history)
    referenced,         \* sitemap URLs validly referenced by a fetched index (history)
    met,                \* the <loc> texts of the fetched urlsets, in document order (history)
    urlListFile,        \* data/url-list.txt
    \* ---- pipeline (scheduler: runPipeline) ----
    stage,              \* the command runPipeline is waiting for, or how it ended
    started,            \* the commands runPipeline has spawned (history)
    abortedBy,          \* the step whose failure made runPipeline reject
    \* ---- URL security filter (axe-auto-reporter.mjs: isUrlAllowed) ----
    candidate,          \* the URL given to isUrlAllowed
    allowedDomains,     \* config.allowedDomains
    blockedDomains,     \* config.blockedDomains
    verdict,            \* what isUrlAllowed returned
    \* ---- Reports Index (server/reports.ts, scheduler) ----
    indexFile,          \* data/reports/index.json
    existing,           \* the summary files and result directories on storage
    fsChanges,          \* changes made to storage so far
    changed,            \* storage changed since the last dashboard read
    reads,              \* dashboard reads so far
    lastRead,           \* what the last readReportsIndex() gave
    response,           \* the last answer of GET /api/runs/[id]
    latestUsed,         \* the entry readLatestRunTimestamp last took its date from
    \* ---- sessions (server/auth.ts, middleware.ts) ----
    authEnabled,        \* USER_AUTHENTICATION
    now,                \* Date.now(), in clock ticks
    cookie,             \* the aar_session cookie the browser holds
    issued,             \* when and how the cookie was created (history)
    answer,             \* the last request and what onRequest did with it
    \* ---- resident scheduler (scheduler.mjs, config.mjs) ----
    settingsFile,       \* data/settings.json
    day,                \* the daily 03:00 checks so far
    latestRun,          \* the timestamp of runs[0] of the Reports Index
    decision,           \* what the last check decided
    runStep,            \* the command of the run that is under way
    used,               \* the settings each process of the run loaded (history)
    atStart,            \* data/settings.json as stored when the run started (history)
    \* ---- URL list (axe-auto-reporter.mjs: reading url-list.txt) ----
    listState,          \* who wrote url-list.txt, whether the reporter read it
    urlsRead,           \* the reporter's `urls` array
    skipped,            \* the lines the reporter did not take
    \* ---- artifact names (utils/filename.mjs, saveResults) ----
    candidates,         \* the URLs of the run, as written in the list
    artifacts,          \* per base filename: the URLs whose results were written to it
    \* ---- artifact files (saveResults: writeFile) ----
    jsonFile,           \* jsonFile[f]: the bytes of artifact file f on storage
    writing,            \* writing[f]: where the writeFile call on file f stands
    writes,             \* writes[f]: the writeFile calls on file f so far
    seen,               \* what the last reader of an artifact file got
    \* ---- repeated resolution (generate-url-list.mjs, one process each) ----
    web,                \* web[s]: the document served for sitemap s
    earlier,            \* how the resolutions that ended so far ended (history)
    \* ---- resident scheduler: the runs in progress ----
    active,             \* the runPipeline() calls that have not returned yet
    \* ---- settings store (server/settings.ts) ----
    calls,              \* calls[c]: a readSettings / saveSettings call and where it stands
    lastSaved,          \* the value of the saveSettings call that succeeded last (history)
    \* ---- login and logout (pages/api/login.ts, logout.ts) ----
    loginAnswer,        \* the last login request and what POST answered
    revoked             \* the token the last logout cleared, and when (history)

inputVars == <<cfg, urls>>
schedVars == <<pc, domainQueues, domainLastRequest, timer>>
execVars == <<page, pageVar, handlers, pageTimeout, gotoTimeout, ret, results, files>>
envVars == <<bigResponse, faults>>
procVars == <<proc, browser, successful, failed>>

runVars == <<inputVars, schedVars, execVars, envVars, procVars>>

resolveVars == <<sitemapUrl, limit, phase, visitedSitemaps, collected, stack,
                 fetched, seenLocations, referenced, met, urlListFile>>

pipelineVars == <<stage, started, abortedBy>>

filterVars == <<candidate, allowedDomains, blockedDomains, verdict>>

reportVars == <<indexFile, existing, fsChanges, changed, reads, lastRead, response,
                latestUsed>>

authVars == <<authEnabled, now, cookie, issued, answer>>

scheduleVars == <<settingsFile, day, latestRun, decision, runStep, used, atStart>>

listVars == <<listState, urlsRead, skipped>>

nameVars == <<candidates, artifacts>>

writeVars == <<jsonFile, writing, writes, seen>>

againVars == <<web, earlier>>

overlapVars == <<active>>

raceVars == <<calls, lastSaved>>

sessionVars == <<loginAnswer, revoked>>

finalVars == <<writeVars, againVars, overlapVars, raceVars, sessionVars>>

laterVars == <<authVars, scheduleVars, listVars, nameVars, finalVars>>

vars == <<runVars, resolveVars, pipelineVars, filterVars, reportVars, laterVars>>

\* What the audit run leaves alone, and what the resolution leaves alone.
notRun == <<resolveVars, pipelineVars, filterVars, reportVars, laterVars>>
notResolve == <<runVars, pipelineVars, filterVars, reportVars, laterVars>>

(***************************************************************************)
(* Helpers                                                                 *)
(***************************************************************************)
\* A string that is empty, and the null returned for an unusable location.
NoUrl == [id |-> "", form |-> "empty"]

Null == [id |-> "", form |-> "null"]

Min(a, b) == IF a <= b THEN a ELSE b

Max(a, b) == IF a >= b THEN a ELSE b

Urls == DOMAIN urls

\* extractDomain(url)
extractDomain(i) == urls[i]

\* A promise that has not settled, a return value not yet computed.
Pending == [status |-> "pending", success |-> FALSE, message |-> "none",
            stack |-> FALSE, timestamp |-> FALSE]

\* return { url, success: true }
SuccessValue == [status |-> "fulfilled", success |-> TRUE, message |-> "none",
                 stack |-> FALSE, timestamp |-> FALSE]

\* handleProcessingError(error, url): { url, success: false, error: errorInfo }
handleProcessingError(message) ==
    [status |-> "fulfilled", success |-> FALSE, message |-> message,
     stack |-> TRUE, timestamp |-> TRUE]

\* The promise of processUrl rejected with `message`.
Rejected(message) ==
    [status |-> "rejected", success |-> FALSE, message |-> message,
     stack |-> FALSE, timestamp |-> FALSE]

\* The tasks that run inside processUrl.
InFlightPcs == {"init", "shot", "audit", "save", "finally"}

InFlight == {i \in Urls : pc[i] \in InFlightPcs}

\* The tasks that hold a slot of their hostname's p-limit gate.
DomainActive(h) ==
    {i \in Urls : extractDomain(i) = h /\ pc[i] \in InFlightPcs \cup {"sleep"}}

\* The tasks that hold a slot of the global p-limit gate.
GlobalActive == {i \in Urls : pc[i] \in InFlightPcs \cup {"sleep", "domainQueue"}}

\* The process lives, its event loop runs: the script is under way, or a
\* signal handler is waiting for cleanup() to return.
Alive == proc \in {"running", "stopping"}

\* enableConcurrency && urls.length > 1
Concurrent == cfg.enableConcurrency /\ Len(urls) > 1

\* The other script is not part of this specification.
RunIdle ==
    /\ cfg = [concurrency |-> 1, maxConcurrentPerDomain |-> 1,
              delayBetweenRequests |-> 0, enableConcurrency |-> FALSE,
              maxPageSize |-> 0]
    /\ urls = <<>>
    /\ pc = <<>>
    /\ domainQueues = [h \in Hosts |-> <<>>]
    /\ domainLastRequest = [h \in Hosts |-> -1]
    /\ timer = <<>>
    /\ page = <<>>
    /\ pageVar = <<>>
    /\ handlers = <<>>
    /\ pageTimeout = <<>>
    /\ gotoTimeout = <<>>
    /\ ret = <<>>
    /\ results = <<>>
    /\ files = {}
    /\ bigResponse = {}
    /\ faults = 0
    /\ proc = "idle"
    /\ browser = "none"
    /\ successful = -1
    /\ failed = -1

ResolverIdle ==
    /\ sitemapUrl = NoUrl
    /\ limit = 1
    /\ phase = "idle"
    /\ visitedSitemaps = {}
    /\ collected = <<>>
    /\ stack = <<>>
    /\ fetched = [u \in {} |-> 0]
    /\ seenLocations = {}
    /\ referenced = {}
    /\ met = <<>>
    /\ urlListFile = <<>>

PipelineIdle ==
    /\ stage = "idle"
    /\ started = {}
    /\ abortedBy = "none"

FilterIdle ==
    /\ candidate = [form |-> "none"]
    /\ allowedDomains = <<>>
    /\ blockedDomains = <<>>
    /\ verdict = "idle"

\* No entry: what find() and runs[0] give when there is none.
NoEntry == [object |-> FALSE, runId |-> "", summaryJson |-> "", resultsDir |-> ""]

NoResponse == [status |-> 0, io |-> FALSE]

ReportsIdle ==
    /\ indexFile = [kind |-> "missing", runs |-> <<>>]
    /\ existing = {}
    /\ fsChanges = 0
    /\ changed = FALSE
    /\ reads = 0
    /\ lastRead = [ok |-> TRUE, runs |-> <<>>, io |-> FALSE]
    /\ response = NoResponse
    /\ latestUsed = NoEntry

\* No cookie, and no request answered yet.
NoToken == [form |-> "none", sub |-> "", exp |-> 0, key |-> ""]

NoAnswer == [method |-> "", path |-> [segments |-> <<>>, ext |-> ""],
             token |-> NoToken, at |-> 0, result |-> "none"]

AuthIdle ==
    /\ authEnabled = FALSE
    /\ now = 0
    /\ cookie = NoToken
    /\ issued = [at |-> 0, rememberMe |-> FALSE]
    /\ answer = NoAnswer

\* No settings loaded, no run in the index, no check made.
NoSettings == [frequency |-> "", version |-> 0]

NoRun == [day |-> -1, lag |-> 0]

NoDecision == [day |-> -1, frequency |-> "", shouldRun |-> FALSE, lastRun |-> NoRun]

NothingLoaded == [scheduler |-> NoSettings, generate |-> NoSettings,
                  reporter |-> NoSettings]

ScheduleIdle ==
    /\ settingsFile = NoSettings
    /\ day = 0
    /\ latestRun = NoRun
    /\ decision = NoDecision
    /\ runStep = "idle"
    /\ used = NothingLoaded
    /\ atStart = NoSettings

ListIdle ==
    /\ listState = "idle"
    /\ urlsRead = <<>>
    /\ skipped = <<>>

NamesIdle ==
    /\ candidates = <<>>
    /\ artifacts = {}

\* The parts of the program added after the Reports Index are not part of
\* this specification.
NotRead == [file |-> 0, content |-> "none"]

WriteIdle ==
    /\ jsonFile = <<>>
    /\ writing = <<>>
    /\ writes = <<>>
    /\ seen = NotRead

AgainIdle ==
    /\ web = <<>>
    /\ earlier = <<>>

OverlapIdle == active = <<>>

RaceIdle ==
    /\ calls = <<>>
    /\ lastSaved = "none"

NoLogin == [status |-> 0]

NoLogout == [token |-> NoToken, at |-> 0]

SessionIdle ==
    /\ loginAnswer = NoLogin
    /\ revoked = NoLogout

FinalIdle == WriteIdle /\ AgainIdle /\ OverlapIdle /\ RaceIdle /\ SessionIdle

LaterIdle == AuthIdle /\ ScheduleIdle /\ ListIdle /\ NamesIdle /\ FinalIdle

(***************************************************************************)
(* Init: the state when the task list has been built.                      *)
(***************************************************************************)
Configs ==
    [concurrency : LimitChoices,
     maxConcurrentPerDomain : LimitChoices,
     delayBetweenRequests : 0..MaxDelay,
     enableConcurrency : BOOLEAN,
     maxPageSize : {0, 1}]

\* Hostnames are interchangeable: the lists are taken with "a.test" first.
UrlLists == {l \in UNION {[1..n -> Hosts] : n \in 1..MaxUrls} : l[1] = "a.test"}

Init ==
    /\ cfg \in Configs
    /\ urls \in UrlLists
    /\ pc = [i \in DOMAIN urls |-> "queued"]
    /\ domainQueues = [h \in Hosts |-> <<>>]
    /\ domainLastRequest = [h \in Hosts |-> -1]
    /\ timer = [i \in DOMAIN urls |-> 0]
    /\ page = [i \in DOMAIN urls |-> "none"]
    /\ pageVar = [i \in DOMAIN urls |-> FALSE]
    /\ handlers = [i \in DOMAIN urls |-> FALSE]
    /\ pageTimeout = [i \in DOMAIN urls |-> "none"]
    /\ gotoTimeout = [i \in DOMAIN urls |-> "none"]
    /\ ret = [i \in DOMAIN urls |-> Pending]
    /\ results = [i \in DOMAIN urls |-> Pending]
    /\ files = {}
    /\ bigResponse = {}
    /\ faults = 0
    /\ proc = "running"
    /\ browser = "open"
    /\ successful = -1
    /\ failed = -1
    /\ ResolverIdle
    /\ PipelineIdle
    /\ FilterIdle
    /\ ReportsIdle
    /\ LaterIdle

(***************************************************************************)
(* The clock.  Date.now() and setTimeout are kept relative: one tick ages  *)
(* every stored last-request time (capped at delayBetweenRequests, beyond  *)
(* which the code no longer distinguishes values) and every running timer. *)
(***************************************************************************)
Tick ==
    /\ Alive
    /\ domainLastRequest' =
           [h \in Hosts |-> IF domainLastRequest[h] = -1 THEN -1
                            ELSE Min(domainLastRequest[h] + 1, cfg.delayBetweenRequests)]
    /\ timer' = [i \in Urls |-> Max(timer[i] - 1, 0)]
    /\ <<domainLastRequest', timer'>> # <<domainLastRequest, timer>>
    /\ UNCHANGED <<notRun, inputVars, pc, domainQueues, execVars, envVars, procVars>>

\* Date.now() - (domainLastRequest.get(domain) || 0): no entry reads as 0, and
\* Date.now() - 0 is beyond every delay.
timeSinceLastRequest(h) ==
    IF domainLastRequest[h] = -1 THEN cfg.delayBetweenRequests
    ELSE domainLastRequest[h]

GlobalSlotFreeOffByOne == Cardinality(GlobalActive) <= cfg.concurrency

DomainSlotFreeOffByOne(h) ==
    Cardinality(DomainActive(h)) <= cfg.maxConcurrentPerDomain

\* p-limit: a queued function starts while fewer than `limit` are active.
GlobalSlotFree == Cardinality(GlobalActive) < cfg.concurrency

DomainSlotFree(h) == Cardinality(DomainActive(h)) < cfg.maxConcurrentPerDomain

\* processUrlWithRateLimit(url, ...) up to queue(...): the task joins the
\* p-limit queue of its hostname.
EnterDomainQueue(i) ==
    /\ pc' = [pc EXCEPT ![i] = "domainQueue"]
    /\ domainQueues' = [domainQueues EXCEPT ![extractDomain(i)] = Append(@, i)]
    /\ UNCHANGED <<notRun, inputVars, domainLastRequest, timer, execVars, envVars, procVars>>

\* globalLimit(() => processUrlWithRateLimit(url, index + 1, urls.length)):
\* p-limit starts its queued functions in call order.
GlobalDispatch(i) ==
    /\ Alive
    /\ Concurrent
    /\ pc[i] = "queued"
    /\ \A j \in Urls : j < i => pc[j] # "queued"
    /\ GlobalSlotFree
    /\ EnterDomainQueue(i)

SequentialDispatchWithoutAwait(i) ==
    /\ Alive
    /\ ~Concurrent
    /\ pc[i] = "queued"
    /\ EnterDomainQueue(i)

\* The sequential loop: await processUrlWithRateLimit(urls[i], ...) is called
\* when the previous await returned a value.
SequentialDispatch(i) ==
    /\ Alive
    /\ ~Concurrent
    /\ pc[i] = "queued"
    /\ \A j \in Urls : j < i => results[j].status = "fulfilled"
    /\ EnterDomainQueue(i)

\* domainLastRequest.set(domain, Date.now()); return processUrl(url, ...)
Dispatch(i) ==
    /\ domainLastRequest' = [domainLastRequest EXCEPT ![extractDomain(i)] = 0]
    /\ pc' = [pc EXCEPT ![i] = "init"]

\* The function given to the hostname's queue starts: it reads the last
\* request time and either sleeps delayNeeded or dispatches at once.
DomainStart(i) ==
    LET h == extractDomain(i)
        delayNeeded == cfg.delayBetweenRequests - timeSinceLastRequest(h)
    IN  /\ Alive
        /\ pc[i] = "domainQueue"
        /\ domainQueues[h] # <<>>
        /\ Head(domainQueues[h]) = i
        /\ DomainSlotFree(h)
        /\ domainQueues' = [domainQueues EXCEPT ![h] = Tail(@)]
        /\ IF timeSinceLastRequest(h) < cfg.delayBetweenRequests
           THEN /\ timer' = [timer EXCEPT ![i] = delayNeeded]
                /\ pc' = [pc EXCEPT ![i] = "sleep"]
                /\ UNCHANGED domainLastRequest
           ELSE /\ Dispatch(i)
                /\ UNCHANGED timer
        /\ UNCHANGED <<notRun, inputVars, execVars, envVars, procVars>>

\* The setTimeout of the delay fired.
Wake(i) ==
    /\ Alive
    /\ pc[i] = "sleep"
    /\ timer[i] = 0
    /\ Dispatch(i)
    /\ UNCHANGED <<notRun, inputVars, domainQueues, timer, execVars, envVars, procVars>>

(***************************************************************************)
(* processUrl(url, index, total).  The URLs of the list passed isValidUrl  *)
(* and index, total >= 1, so its two early returns are never taken.        *)
(***************************************************************************)
\* catch (error) { return handleProcessingError(error, url); }: the value is
\* kept until the finally block has run.
Catch(i, message) ==
    /\ ret' = [ret EXCEPT ![i] = handleProcessingError(message)]
    /\ pc' = [pc EXCEPT ![i] = "finally"]

\* The awaited call returned: on to the next statement of the try block.
Proceed(i, next) ==
    /\ pc' = [pc EXCEPT ![i] = next]
    /\ UNCHANGED ret

\* An awaited browser or file-system operation rejects.
Fault ==
    /\ faults < MaxFaults
    /\ faults' = faults + 1

\* contentLength && parseInt(contentLength, 10) > maxPageSize
ExceedsLimit(contentLength) == contentLength # 0 /\ contentLength > cfg.maxPageSize

\* page.setDefaultNavigationTimeout(navigationTimeout)
setDefaultNavigationTimeout == "configured"

\* initializePage: loadPage (browser.newPage, then page.goto, on a page that has
\* puppeteer's default timeout), then the configured timeouts, and the
\* response listener when maxPageSize > 0.  processUrl's `page` is assigned
\* only when initializePage returns.  `big`: the document's own response had
\* an oversize content-length; no listener is attached while it arrives.
initializePage(i) ==
    /\ Alive
    /\ pc[i] = "init"
    /\ \E outcome \in {"ok", "newPage", "goto"}, big \in BOOLEAN :
          LET created == IF outcome = "newPage" THEN "none" ELSE "default"
              gotoUnder == created
          IN
          /\ big => /\ outcome # "newPage"
                    /\ Cardinality(bigResponse) < MaxBigResponses
                    /\ cfg.maxPageSize > 0
          /\ bigResponse' = IF big THEN bigResponse \cup {i} ELSE bigResponse
          /\ page' = [page EXCEPT ![i] = IF outcome = "newPage" THEN "none" ELSE "open"]
          /\ gotoTimeout' = [gotoTimeout EXCEPT ![i] = gotoUnder]
          /\ IF outcome = "ok"
             THEN /\ pageVar' = [pageVar EXCEPT ![i] = TRUE]
                  /\ pageTimeout' = [pageTimeout EXCEPT ![i] = setDefaultNavigationTimeout]
                  /\ handlers' = [handlers EXCEPT ![i] = cfg.maxPageSize > 0]
                  /\ Proceed(i, "shot")
                  /\ UNCHANGED faults
             ELSE /\ Fault
                  /\ Catch(i, "init")
                  /\ pageTimeout' = [pageTimeout EXCEPT ![i] = created]
                  /\ UNCHANGED <<pageVar, handlers>>
    /\ UNCHANGED <<notRun, inputVars, domainQueues, domainLastRequest, timer, results, files,
                   procVars>>

\* captureScreenshot: page.screenshot(...) returns the buffer or rejects.
captureScreenshot(i) ==
    /\ Alive
    /\ pc[i] = "shot"
    /\ \E ok \in BOOLEAN :
          IF ok THEN Proceed(i, "audit") /\ UNCHANGED faults
          ELSE Fault /\ Catch(i, "screenshot")
    /\ UNCHANGED <<notRun, inputVars, domainQueues, domainLastRequest, timer, page, pageVar,
                   handlers, pageTimeout, gotoTimeout, results, files, bigResponse,
                   procVars>>

\* !results || typeof results !== 'object'
InvalidResult(r) == r # "object"

\* runAccessibilityTest: analyze() rejects, or resolves to an object or to
\* something else.
runAccessibilityTest(i) ==
    /\ Alive
    /\ pc[i] = "audit"
    /\ \E r \in {"object", "null", "rejects"} :
          IF r = "rejects" THEN Fault /\ Catch(i, "audit")
          ELSE /\ UNCHANGED faults
               /\ IF InvalidResult(r)
                  THEN Catch(i, "Invalid axe test results received")
                  ELSE Proceed(i, "save")
    /\ UNCHANGED <<notRun, inputVars, domainQueues, domainLastRequest, timer, page, pageVar,
                   handlers, pageTimeout, gotoTimeout, results, files, bigResponse,
                   procVars>>

\* saveResults, cleanupMemory and `return { url, success: true }`: the image is
\* written first, the JSON last; either writeFile may reject.
saveResults(i) ==
    /\ Alive
    /\ pc[i] = "save"
    /\ \E outcome \in {"ok", "image", "json"} :
          /\ files' = CASE outcome = "ok" -> files \cup {<<i, "image">>, <<i, "json">>}
                        [] outcome = "json" -> files \cup {<<i, "image">>}
                        [] outcome = "image" -> files
          /\ IF outcome = "ok"
             THEN /\ ret' = [ret EXCEPT ![i] = SuccessValue]
                  /\ pc' = [pc EXCEPT ![i] = "finally"]
                  /\ UNCHANGED faults
             ELSE Fault /\ Catch(i, "save")
    /\ UNCHANGED <<notRun, inputVars, domainQueues, domainLastRequest, timer, page, pageVar,
                   handlers, pageTimeout, gotoTimeout, results, bigResponse, procVars>>

\* safeCleanupPage(page, eventHandlers, index) acts: page && !page.isClosed()
NeedsCleanup(i) == pageVar[i] /\ page[i] = "open"

\* finally { await safeCleanupPage(...) }: the listeners are removed and the
\* page closed; a rejecting page.close() replaces the value kept by try/catch.
\* The promise then settles, which frees the task's gate slots.
Finally(i) ==
    /\ Alive
    /\ pc[i] = "finally"
    /\ IF NeedsCleanup(i)
       THEN /\ handlers' = [handlers EXCEPT ![i] = FALSE]
            /\ \E closed \in BOOLEAN :
                  IF closed
                  THEN /\ page' = [page EXCEPT ![i] = "closed"]
                       /\ results' = [results EXCEPT ![i] = ret[i]]
                       /\ UNCHANGED faults
                  ELSE /\ Fault
                       /\ results' = [results EXCEPT ![i] = Rejected("close")]
                       /\ UNCHANGED page
       ELSE /\ results' = [results EXCEPT ![i] = ret[i]]
            /\ UNCHANGED <<page, handlers, faults>>
    /\ pc' = [pc EXCEPT ![i] = "settled"]
    /\ UNCHANGED <<notRun, inputVars, domainQueues, domainLastRequest, timer, pageVar,
                   pageTimeout, gotoTimeout, ret, files, bigResponse, procVars>>

\* cleanup(): if (browser) await browser.close()
cleanup == browser' = "closed"

\* responseHandler: a response with an oversize content-length reaches the
\* listener, which throws inside the page's event emitter, outside every
\* try block of processUrl.  The exception either ends up at the process's
\* uncaughtException / unhandledRejection handler (cleanup, exit(1)) or is
\* dropped by the emitter's caller.
responseHandler(i) ==
    /\ Alive
    /\ page[i] = "open"
    /\ handlers[i]
    /\ Cardinality(bigResponse) < MaxBigResponses
    /\ \E contentLength \in {0, 1, 2} :
          /\ ExceedsLimit(contentLength)
          /\ bigResponse' = bigResponse \cup {i}
    /\ \E uncaught \in BOOLEAN :
          IF uncaught THEN cleanup /\ proc' = "uncaught"
          ELSE UNCHANGED <<browser, proc>>
    /\ UNCHANGED <<notRun, inputVars, schedVars, execVars, faults, successful, failed>>

CountFulfilled == Cardinality({i \in Urls : results[i].status = "fulfilled"})

\* results.filter(r => r.status === 'fulfilled' && r.value.success).length
CountSuccessful == Cardinality({i \in Urls : results[i].status = "fulfilled"
                                             /\ results[i].success})

\* Promise.allSettled(promises) resolved, or the sequential loop ended: the
\* counts are reported, cleanup() closes the browser and the script ends.
Finish ==
    /\ Alive
    /\ \A i \in Urls : pc[i] = "settled"
    /\ Concurrent \/ \A i \in Urls : results[i].status = "fulfilled"
    /\ successful' = CountSuccessful
    /\ failed' = Len(urls) - CountSuccessful
    /\ cleanup
    /\ proc' = "done"
    /\ UNCHANGED <<notRun, inputVars, schedVars, execVars, envVars>>

\* The sequential loop's await threw: the outer catch runs cleanup() and
\* process.exit(1).
FatalError ==
    /\ Alive
    /\ ~Concurrent
    /\ \E i \in Urls : results[i].status = "rejected"
    /\ cleanup
    /\ proc' = "fatal"
    /\ UNCHANGED <<notRun, inputVars, schedVars, execVars, envVars, successful, failed>>

Next ==
    \/ Tick
    \/ \E i \in Urls : GlobalDispatch(i)
    \/ \E i \in Urls : SequentialDispatch(i)
    \/ \E i \in Urls : DomainStart(i)
    \/ \E i \in Urls : Wake(i)
    \/ \E i \in Urls : initializePage(i)
    \/ \E i \in Urls : captureScreenshot(i)
    \/ \E i \in Urls : runAccessibilityTest(i)
    \/ \E i \in Urls : saveResults(i)
    \/ \E i \in Urls : Finally(i)
    \/ \E i \in Urls : responseHandler(i)
    \/ Finish
    \/ FatalError

Spec == Init /\ [][Next]_vars

(***************************************************************************)
(* The run under SIGINT / SIGTERM.  The handler is async: it calls         *)
(* cleanup(), whose browser.close() is awaited, and calls process.exit(0)  *)
(* when that returns; the event loop serves timers and promise callbacks   *)
(* of the run in between.                                                  *)
(***************************************************************************)
\* process.on('SIGINT' / 'SIGTERM'): the handler starts, up to the await in
\* cleanup(): browser.close() is under way.
Signal ==
    /\ proc = "running"
    /\ proc' = "stopping"
    /\ browser' = IF browser = "open" THEN "closing" ELSE browser
    /\ UNCHANGED <<notRun, inputVars, schedVars, execVars, envVars, successful, failed>>

\* browser.close() returned: cleanup() returns and the handler calls
\* process.exit(0).
SignalExit ==
    /\ proc = "stopping"
    /\ cleanup
    /\ proc' = "exited"
    /\ UNCHANGED <<notRun, inputVars, schedVars, execVars, envVars, successful, failed>>

NextSignal ==
    \/ Next
    \/ Signal
    \/ SignalExit

SpecSignal == Init /\ [][NextSignal]_vars

(***************************************************************************)
(* Claims about the audit run.                                             *)
(***************************************************************************)
\* processUrl(url, ...) is called for URL i in this step.
Dispatched(i) == pc[i] # "init" /\ pc'[i] = "init"

\* The audits inside processUrl, of one hostname.
InFlightOf(h) == {i \in Urls : urls[i] = h /\ pc[i] \in InFlightPcs}

\* The catch block of processUrl ran for URL i, and processUrl has settled.
FailureSettled(i) ==
    /\ pc[i] = "settled"
    /\ ret[i].status = "fulfilled"
    /\ ~ret[i].success

\* C1: whenever an audit is dispatched, at least delayBetweenRequests have
\* passed since the previous dispatch for the same hostname (the stored
\* last-request time is the time of that dispatch).
C1_DispatchesSpaced ==
    [][\A i \in Urls :
          Dispatched(i) =>
              timeSinceLastRequest(urls[i]) >= cfg.delayBetweenRequests]_vars

\* C2: at most maxConcurrentPerDomain audits of one hostname are in flight.
C2_AtMostDPerHost ==
    \A h \in Hosts : Cardinality(InFlightOf(h)) <= cfg.maxConcurrentPerDomain

\* A hostname has all its slots in use while another of its URLs, holding a
\* global slot already, waits in its queue.
C2_Witness ==
    \E h \in Hosts :
       /\ Cardinality(InFlightOf(h)) = cfg.maxConcurrentPerDomain
       /\ \E j \in Urls : urls[j] = h /\ pc[j] = "domainQueue"

\* C3: at most `concurrency` audits are in flight.
C3_AtMostCInFlight == Cardinality(InFlight) <= cfg.concurrency

\* Every global slot carries an audit in flight while a URL still waits.
C3_Witness ==
    /\ Concurrent
    /\ cfg.concurrency >= 2
    /\ Cardinality(InFlight) = cfg.concurrency
    /\ \E j \in Urls : pc[j] = "queued"

\* C4: when the script ends by itself, with the final report or through its
\* outer catch block, every URL of the list was audited and has settled.
C4_EveryUrlSettles ==
    proc \in {"done", "fatal"} => \A i \in Urls : pc[i] = "settled"

\* C5: a page that received a response with an oversize content-length does
\* not bring the process down, and its URL ends with a failure result.
C5_OversizePageFails ==
    \A i \in bigResponse :
       /\ proc # "uncaught"
       /\ pc[i] = "settled" => results[i].status = "fulfilled" /\ ~results[i].success

\* C6: once processUrl has settled after a failure in its try block, its
\* result is the failure record with message, stack and timestamp, and an
\* invalid audit result left no artifact.
C6_FailuresAreData ==
    \A i \in Urls :
       FailureSettled(i) =>
          /\ results[i] = handleProcessingError(ret[i].message)
          /\ results[i].stack /\ results[i].timestamp
          /\ ret[i].message = "Invalid axe test results received"
                => {<<i, "image">>, <<i, "json">>} \cap files = {}

\* C7: when the processing of a URL has settled, its page is not open any
\* more and no response listener is attached to it.
C7_PageReleased ==
    \A i \in Urls : pc[i] = "settled" => page[i] # "open" /\ ~handlers[i]

(***************************************************************************)
(* Sitemap resolution: script/generate-url-list.mjs.                       *)
(*                                                                         *)
(* A URL string is [id, form]: `id` names the resource, `form` says how    *)
(* the string is written.  new URL(...).toString() writes every usable     *)
(* form of a sitemap URL in its canonical form.                            *)
(***************************************************************************)
SitemapIds == {"s0", "s1", "s2"}

PageIds == {"u1", "u2", "u3"}

Str(id, form) == [id |-> id, form |-> form]

\* The values of settings.sitemapUrl: not set, or the root sitemap written
\* canonically or not (upper-case host, default port, ...).
RootChoices == {NoUrl, Str("s0", "canonical"), Str("s0", "variant")}

\* The <loc> texts of a sitemap index.
ChildRefs == {Str("s0", "canonical"), Str("s1", "canonical"), Str("s2", "relative"),
              Str("s1", "malformed")}

\* The <loc> texts of a urlset.
LeafLocs == {Str("u1", "plain"), Str("u2", "plain"), Str("u3", "plain"),
             Str("u2", "padded"), Str("u1", "nonhttp")}

SeqsUpTo(S, n) == UNION {[1..k -> S] : k \in 0..n}

Untrimmed(entry) == entry

\* extractLocation(entry): the <loc> text, trimmed.
extractLocation(entry) ==
    IF entry.form = "padded" THEN Str(entry.id, "plain") ELSE entry

\* isHttpUrl(value): starts with http:// or https:// and new URL() accepts it.
isHttpUrl(value) == value.form \in {"plain", "canonical"}

\* resolveUrl(baseUrl, relativeUrl): new URL(relativeUrl, baseUrl).toString(),
\* or null when new URL throws.
resolveUrl(baseUrl, relativeUrl) ==
    IF relativeUrl.form \in {"canonical", "variant", "relative"}
    THEN Str(relativeUrl.id, "canonical")
    ELSE Null

LimitExceeded(list) == Len(list) > limit

\* collected.length >= limit
LimitReached(list) == Len(list) >= limit

NeverVisited(url) == FALSE

\* visitedSitemaps.has(sitemapUrl)
AlreadyVisited(url) == url \in visitedSitemaps

CollectWithoutIncludes(list, location) ==
    /\ location.form # "empty"
    /\ location.form \in {"plain", "canonical"}

\* location && isHttpUrl(location) && !collected.includes(location)
ShouldCollect(list, location) ==
    /\ location.form # "empty"
    /\ isHttpUrl(location)
    /\ \A k \in DOMAIN list : list[k] # location

\* The for loop over the entries of a urlset.
RECURSIVE CollectEntries(_, _)
CollectEntries(list, entries) ==
    IF entries = <<>> \/ LimitReached(list) THEN list
    ELSE LET location == extractLocation(Head(entries))
         IN  CollectEntries(IF ShouldCollect(list, location)
                            THEN Append(list, location) ELSE list,
                            Tail(entries))

\* The list written by an earlier run.
OldUrlList == <<Str("u3", "plain")>>

\* generate-url-list.mjs is loaded: settings read, nothing visited yet.
ResolverStart ==
    /\ sitemapUrl \in RootChoices
    /\ limit \in 1..MaxPages
    /\ phase = "start"
    /\ visitedSitemaps = {}
    /\ collected = <<>>
    /\ stack = <<>>
    /\ fetched = [u \in {} |-> 0]
    /\ seenLocations = {}
    /\ referenced = {}
    /\ met = <<>>
    /\ urlListFile = OldUrlList

InitResolve ==
    /\ ResolverStart
    /\ RunIdle
    /\ PipelineIdle
    /\ FilterIdle
    /\ ReportsIdle
    /\ LaterIdle

\* fetch(url, { redirect: 'follow' }) is called.
Request(url) ==
    fetched' = [u \in DOMAIN fetched \cup {url} |->
                   IF u = url THEN (IF u \in DOMAIN fetched THEN fetched[u] ELSE 0) + 1
                   ELSE fetched[u]]

\* collectUrlsFromSitemap(url, limit, collected) up to its first await: it
\* returns at once, or marks the URL visited and calls fetchSitemap.
Call(url, callers) ==
    IF LimitReached(collected) \/ AlreadyVisited(url)
    THEN /\ stack' = callers
         /\ UNCHANGED <<visitedSitemaps, fetched>>
    ELSE /\ visitedSitemaps' = visitedSitemaps \cup {url}
         /\ Request(url)
         /\ stack' = <<[url |-> url, at |-> "fetch", seen |-> 0]>> \o callers

\* main() up to its first await.
main ==
    /\ phase = "start"
    /\ IF sitemapUrl = NoUrl
       THEN /\ phase' = "skipped"
            /\ UNCHANGED <<visitedSitemaps, stack, fetched>>
       ELSE /\ phase' = "collecting"
            /\ Call(sitemapUrl, <<>>)
    /\ UNCHANGED <<notResolve, sitemapUrl, limit, collected, seenLocations,
                   referenced, met, urlListFile>>

\* The page URLs of a urlset that pass isHttpUrl.
ValidLocations(entries) ==
    {l \in {extractLocation(entries[k]) : k \in DOMAIN entries} : isHttpUrl(l)}

\* await fetchSitemap(sitemapUrl) settles and the document is handled up to
\* the next await: a non-ok status throws through every caller and main; a
\* urlset is collected and the call returns; an index starts its loop.
\* `record`: the history of the <loc> texts met is kept.
fetchDocument(record) ==
    /\ phase = "collecting"
    /\ stack # <<>>
    /\ Head(stack).at = "fetch"
    /\ \E kind \in {"error", "urlset", "sitemapindex", "other"} :
          CASE kind = "error" ->
                   /\ phase' = "failed"
                   /\ stack' = <<>>
                   /\ UNCHANGED <<collected, seenLocations, met>>
            [] kind = "urlset" ->
                   \E entries \in SeqsUpTo(LeafLocs, MaxEntries) :
                      /\ collected' = CollectEntries(collected, entries)
                      /\ seenLocations' = seenLocations \cup ValidLocations(entries)
                      /\ met' = IF record THEN met \o entries ELSE met
                      /\ stack' = Tail(stack)
                      /\ UNCHANGED phase
            [] kind = "sitemapindex" ->
                   /\ stack' = <<[Head(stack) EXCEPT !.at = "loop"]>> \o Tail(stack)
                   /\ UNCHANGED <<phase, collected, seenLocations, met>>
            [] kind = "other" ->
                   /\ stack' = Tail(stack)
                   /\ UNCHANGED <<phase, collected, seenLocations, met>>
    /\ UNCHANGED <<notResolve, sitemapUrl, limit, visitedSitemaps, fetched, referenced,
                   urlListFile>>

fetchSitemap == fetchDocument(FALSE)

fetchSitemapInOrder == fetchDocument(TRUE)

\* One round of the for loop over the children of a sitemap index.  The
\* index is any list of at most MaxEntries references: whether it has a
\* further child, and which, is drawn when the loop gets there.
indexLoop ==
    /\ phase = "collecting"
    /\ stack # <<>>
    /\ Head(stack).at = "loop"
    /\ LET frame == Head(stack)
           rest == [frame EXCEPT !.seen = @ + 1]
       IN  \E more \in BOOLEAN :
              /\ more => frame.seen < MaxEntries
              /\ IF ~more \/ LimitReached(collected)
                 THEN /\ stack' = Tail(stack)
                      /\ UNCHANGED <<visitedSitemaps, fetched, referenced>>
                 ELSE \E child \in ChildRefs :
                         LET location == extractLocation(child)
                             resolved == resolveUrl(frame.url, location)
                         IN  IF location.form = "empty" \/ resolved = Null
                                \/ ~isHttpUrl(resolved)
                             THEN /\ stack' = <<rest>> \o Tail(stack)
                                  /\ UNCHANGED <<visitedSitemaps, fetched, referenced>>
                             ELSE /\ referenced' = referenced \cup {resolved}
                                  /\ Call(resolved, <<rest>> \o Tail(stack))
    /\ UNCHANGED <<notResolve, sitemapUrl, limit, phase, collected, seenLocations,
                   met, urlListFile>>

\* collected.slice(0, limit).join('\n')
Slice(list) == SubSeq(list, 1, Min(Len(list), limit))

\* collectUrlsFromSitemap returned to main: the list is written.
writeUrlList ==
    /\ phase = "collecting"
    /\ stack = <<>>
    /\ urlListFile' = Slice(collected)
    /\ phase' = "done"
    /\ UNCHANGED <<notResolve, sitemapUrl, limit, visitedSitemaps, collected, stack,
                   fetched, seenLocations, referenced, met>>

NextResolve ==
    \/ main
    \/ fetchSitemap
    \/ indexLoop
    \/ writeUrlList

\* The script is one sequential program: it keeps running until it ends.
SpecResolve == InitResolve /\ [][NextResolve]_vars /\ WF_vars(NextResolve)

\* The resolution with the history of the locations met.
NextOrder ==
    \/ main
    \/ fetchSitemapInOrder
    \/ indexLoop
    \/ writeUrlList

SpecOrder == InitResolve /\ [][NextOrder]_vars

(***************************************************************************)
(* The pipeline: runPipeline of the scheduler spawns generate-url-list.mjs, *)
(* axe-auto-reporter.mjs, build-summary.mjs and the build, one after the   *)
(* other.  runCommand resolves when the child exits with code 0 and        *)
(* rejects otherwise; runPipeline does not catch.                          *)
(***************************************************************************)
notPipeline == <<runVars, resolveVars, filterVars, reportVars, laterVars>>

ExitsZero(ph) == 0

\* The exit code of generate-url-list.mjs: `await main()` at the top level
\* rejects when main throws, which ends node with code 1.
generateExitCode(ph) == IF ph = "failed" THEN 1 ELSE 0

\* child.on('close'): code === 0 resolves, anything else rejects.
Abort(step) ==
    /\ stage' = "aborted"
    /\ abortedBy' = step
    /\ UNCHANGED started

Start(command) ==
    /\ stage' = command
    /\ started' = started \cup {command}
    /\ UNCHANGED abortedBy

InitPipeline ==
    /\ ResolverStart
    /\ RunIdle
    /\ FilterIdle
    /\ ReportsIdle
    /\ LaterIdle
    /\ stage = "generate"
    /\ started = {"generate"}
    /\ abortedBy = "none"

\* await runCommand(commandPaths.generate) settles.
generateExit ==
    /\ stage = "generate"
    /\ phase \in {"done", "failed", "skipped"}
    /\ IF generateExitCode(phase) = 0 THEN Start("reporter") ELSE Abort("generate")
    /\ UNCHANGED notPipeline

\* The URLs of url-list.txt that pass isValidUrl and isUrlAllowed, for a
\* block-list that matches the hosts of `blocked`.
UsableUrls(list, blocked) == SelectSeq(list, LAMBDA u : u.id \notin blocked)

\* await runCommand(commandPaths.reporter) settles.  The reporter reads
\* url-list.txt and throws when no URL is left after filtering; its outer
\* catch exits with code 1.  Otherwise it audits and exits with 0, or with 1
\* after a fatal error.
reporterExit ==
    /\ stage = "reporter"
    /\ \E blocked \in SUBSET PageIds, code \in {0, 1} :
          IF Len(UsableUrls(urlListFile, blocked)) = 0
          THEN Abort("No valid URLs found in the URL list file")
          ELSE IF code = 0 THEN Start("summary") ELSE Abort("reporter")
    /\ UNCHANGED notPipeline

\* findLatestRunDirectory() returned null, or await
\* runCommand(commandPaths.summary, ...) settles.
summaryExit ==
    /\ stage = "summary"
    /\ \E latestDir \in BOOLEAN, code \in {0, 1} :
          IF ~latestDir THEN Abort("findLatestRunDirectory")
          ELSE IF code = 0 THEN Start("build") ELSE Abort("summary")
    /\ UNCHANGED notPipeline

\* runCommand(commandPath, args) spawns process.execPath with the arguments
\* [commandPath, ...args]: node takes commandPath as the script to run.  A
\* script exits with 0 or not; node's own executable, given as the script,
\* does not compile, and node exits with 1.
runCommand(commandPath) == IF commandPath = "process.execPath" THEN {1} ELSE {0, 1}

\* await runCommand(process.execPath, [... 'run', 'build']) settles.
buildExit ==
    /\ stage = "build"
    /\ \E code \in runCommand("process.execPath") :
          IF code = 0
          THEN stage' = "completed" /\ UNCHANGED <<started, abortedBy>>
          ELSE Abort("build")
    /\ UNCHANGED notPipeline

NextPipeline ==
    \/ main
    \/ fetchSitemap
    \/ indexLoop
    \/ writeUrlList
    \/ generateExit
    \/ reporterExit
    \/ summaryExit
    \/ buildExit

SpecPipeline == InitPipeline /\ [][NextPipeline]_vars

(***************************************************************************)
(* Claims about the sitemap resolution.                                    *)
(***************************************************************************)
Range(list) == {list[k] : k \in DOMAIN list}

NoDuplicates(list) == \A j, k \in DOMAIN list : j # k => list[j] # list[k]

\* main() has ended: the list is written, or the resolution failed, or no
\* sitemap URL was configured.
Terminated == phase \in {"done", "failed", "skipped"}

\* No sitemap URL is fetched a second time.
NoRefetch == \A u \in DOMAIN fetched : fetched[u] = 1

\* When the resolution ends below the cap, every sitemap that a fetched index
\* validly refers to was visited and fetched, and the list written holds
\* exactly the page URLs found in the fetched urlsets.
ResolvedAll ==
    (phase = "done" /\ Len(collected) < limit) =>
        /\ referenced \subseteq visitedSitemaps
        /\ DOMAIN fetched = visitedSitemaps
        /\ Range(collected) = seenLocations
        /\ urlListFile = collected

\* C8: whatever the sitemap documents refer to (cycles and duplicates
\* included), the resolution ends; no sitemap URL is fetched twice; and a
\* resolution that ends below the cap returns every page URL reachable from
\* the root.
C8_CyclesTerminate == [](NoRefetch /\ ResolvedAll) /\ <>Terminated

\* An index referred back to the root sitemap (A -> B -> A) and the
\* resolution still ended with page URLs.
C8_Witness ==
    /\ phase = "done"
    /\ sitemapUrl \in referenced
    /\ Cardinality(visitedSitemaps) >= 2
    /\ collected # <<>>

\* C9: at every point the collected sequence has at most maxPages entries and
\* no URL twice, and so has the list that is written.
C9_BoundedNoDuplicates ==
    /\ Len(collected) <= limit
    /\ NoDuplicates(collected)
    /\ phase = "done" => /\ Len(urlListFile) <= limit
                         /\ NoDuplicates(urlListFile)

\* The cap was reached although the urlsets held more page URLs, one of them
\* more than once.
C9_Witness ==
    /\ phase = "done"
    /\ limit >= 2
    /\ Len(urlListFile) = limit
    /\ Cardinality(seenLocations) > limit

\* C10: a fetch is issued only while fewer than maxPages URLs are collected.
C10_NoFetchAfterCap == [][fetched' # fetched => Len(collected) < limit]_vars

\* The cap was reached inside a child sitemap while the loop of the index
\* above it had not come to the end of its list.
C10_Witness ==
    /\ phase = "collecting"
    /\ Len(collected) = limit
    /\ stack # <<>>
    /\ Head(stack).at = "loop"
    /\ Head(stack).seen < MaxEntries

\* The text of a location without the white space around it.
Trimmed(loc) == IF loc.form = "padded" THEN Str(loc.id, "plain") ELSE loc

\* The location is a well-formed absolute http(s) URL.
WellFormedHttp(loc) == loc.form = "plain"

\* The first n distinct well-formed locations of a list of <loc> texts.
RECURSIVE FirstDistinct(_, _, _)
FirstDistinct(locs, n, acc) ==
    IF locs = <<>> \/ Len(acc) = n THEN acc
    ELSE LET l == Trimmed(Head(locs))
         IN  FirstDistinct(Tail(locs), n,
                           IF WellFormedHttp(l) /\ l \notin Range(acc)
                           THEN Append(acc, l) ELSE acc)

\* C11: the list written is the first maxPages distinct well-formed http(s)
\* locations, in the depth-first document order in which the urlsets of the
\* sitemap tree are met.
C11_FirstDistinctInOrder ==
    phase = "done" => urlListFile = FirstDistinct(met, limit, <<>>)

\* The example of the claim: an index with two urlsets [u1, u2] and [u2, u3]
\* and maxPages = 3 gives [u1, u2, u3].
C11_Witness ==
    /\ phase = "done"
    /\ limit = 3
    /\ Cardinality(visitedSitemaps) = 3
    /\ met = <<Str("u1", "plain"), Str("u2", "plain"),
               Str("u2", "plain"), Str("u3", "plain")>>
    /\ urlListFile = <<Str("u1", "plain"), Str("u2", "plain"), Str("u3", "plain")>>

(***************************************************************************)
(* Claims about the pipeline.                                              *)
(***************************************************************************)
\* C12: a resolution that ends with an empty URL list does not make the run
\* abort: the stages after it are not blocked.
C12_EmptyListDoesNotBlock ==
    (phase = "done" /\ urlListFile = <<>>) => stage # "aborted"

\* C13: when a sitemap fetch fails, the stored URL list stays as it was and
\* the run aborts without starting the audit or the summary.
C13_FetchFailureAborts ==
    phase = "failed" =>
        /\ urlListFile = OldUrlList
        /\ started = {"generate"}
        /\ stage \in {"generate", "aborted"}
        /\ stage = "aborted" => abortedBy = "generate"

\* A nested sitemap could not be fetched after page URLs had been collected,
\* and the run has aborted.
C13_Witness ==
    /\ phase = "failed"
    /\ stage = "aborted"
    /\ Cardinality(visitedSitemaps) >= 2
    /\ collected # <<>>

(***************************************************************************)
(* The URL security filter: isIpInCidr and isUrlAllowed.                   *)
(*                                                                         *)
(* A string is a record that says what kind of text it is:                 *)
(*   name   chars: its characters, "." among them                          *)
(*   v4     parts: what split('.').map(Number) gives                       *)
(*   v6     parts: what split(':') gives as numbers, -1 for an empty part; *)
(*          bracketed: the text is written inside [ ]                      *)
(*   cidr   network: a string, prefix: what parseInt gives for the text    *)
(*          after the slash, as [nan, n]                                   *)
(***************************************************************************)
\* Longest allow-list and block-list of host names.
MaxListLen == 2

notFilter == <<runVars, resolveVars, pipelineVars, reportVars, laterVars>>

Name(chars) == [kind |-> "name", chars |-> chars]

V4(parts) == [kind |-> "v4", parts |-> parts]

V6(parts, bracketed) == [kind |-> "v6", parts |-> parts, bracketed |-> bracketed]

Cidr(network, prefix) == [kind |-> "cidr", network |-> network, prefix |-> prefix]

Num(n) == [nan |-> FALSE, n |-> n]

NaN == [nan |-> TRUE, n |-> 0]

\* A URL is its host as written, or text that new URL() does not accept.
MalformedUrl == [form |-> "malformed"]

UrlOf(host) == [form |-> "url", host |-> host]

\* new URL(url).hostname: an IPv6 literal keeps its brackets.
hostnameOf(url) ==
    IF url.host.kind = "v6" THEN V6(url.host.parts, TRUE) ELSE url.host

\* String.prototype.toLowerCase()
toLowerCase(str) ==
    IF str.kind = "name"
    THEN Name([k \in DOMAIN str.chars |->
                  IF str.chars[k] = "B" THEN "b" ELSE str.chars[k]])
    ELSE str

\* String.prototype.endsWith(), on lists of characters.
EndsWith(chars, suffix) ==
    /\ Len(suffix) <= Len(chars)
    /\ SubSeq(chars, Len(chars) - Len(suffix) + 1, Len(chars)) = suffix

\* The number of pieces split('.') cuts the characters into.
NumLabels(chars) == 1 + Cardinality({k \in DOMAIN chars : chars[k] = "."})

\* ip.split('.').map(Number): a piece that is no number is NaN, which the
\* bit operations read as 0.
splitDots(str) ==
    CASE str.kind = "v4" -> str.parts
      [] str.kind = "name" -> [k \in 1..NumLabels(str.chars) |-> 0]
      [] OTHER -> <<0>>

\* The count of a shift, as << takes it: modulo 32, NaN as 0.
ShiftCount(n) == n % 32

\* The leading `n` bits of two lists of w-bit groups are the same.
LeadingBitsEqual(x, y, n, w) ==
    \A k \in DOMAIN x :
       LET m == Min(w, Max(0, n - w * (k - 1)))
       IN  x[k] \div (2 ^ (w - m)) = y[k] \div (2 ^ (w - m))

\* isIP(text) of node:net
isIP(str) ==
    CASE str.kind = "v4" /\ Len(str.parts) = 4 -> 4
      [] str.kind = "v6" /\ ~str.bracketed -> 6
      [] OTHER -> 0

\* ipv6ToBinary(addr): the parts around the first empty part, filled up with
\* zero groups to eight; the binary text is kept as the list of groups.
ipv6ToBinary(addr) ==
    LET parts == addr.parts
        empties == {k \in DOMAIN parts : parts[k] = -1}
    IN  IF empties = {} THEN parts
        ELSE LET doubleColonIndex == CHOOSE k \in empties : \A j \in empties : k <= j
                 beforeDouble == SubSeq(parts, 1, doubleColonIndex - 1)
                 afterDouble == SelectSeq(SubSeq(parts, doubleColonIndex + 1, Len(parts)),
                                          LAMBDA q : q # -1)
                 zerosNeeded == 8 - Len(beforeDouble) - Len(afterDouble)
             IN  beforeDouble \o [k \in 1..Max(zerosNeeded, 0) |-> 0] \o afterDouble

\* isIpInCidr(ip, cidr)
isIpInCidr(ip, cidr) ==
    LET network == cidr.network
        prefix == cidr.prefix
        isIPv4 == network.kind = "v4"
                     \/ (network.kind = "name" /\ NumLabels(network.chars) > 1)
        isIPv6 == network.kind = "v6"
    IN  IF isIPv4
        THEN LET networkParts == splitDots(network)
                 ipParts == splitDots(ip)
             IN  IF Len(networkParts) # 4 \/ Len(ipParts) # 4 THEN FALSE
                 ELSE IF ~prefix.nan /\ (prefix.n < 0 \/ prefix.n > 32) THEN FALSE
                 ELSE LET shift == IF prefix.nan THEN 0 ELSE ShiftCount(32 - prefix.n)
                      IN  LeadingBitsEqual(networkParts, ipParts, 32 - shift, 8)
        ELSE IF isIPv6
        THEN IF ~prefix.nan /\ (prefix.n < 0 \/ prefix.n > 128) THEN FALSE
             ELSE IF isIP(network) # 6 \/ isIP(ip) # 6 THEN FALSE
             ELSE LET networkBinary == ipv6ToBinary(network)
                      ipBinary == ipv6ToBinary(ip)
                  IN  IF Len(networkBinary) # 8 \/ Len(ipBinary) # 8 THEN FALSE
                      ELSE LeadingBitsEqual(networkBinary, ipBinary,
                                            IF prefix.nan THEN 0 ELSE prefix.n, 16)
        ELSE FALSE

SuffixWithoutDot(hostname, domain) ==
    \/ hostname = domain
    \/ /\ hostname.kind = "name"
       /\ domain.kind = "name"
       /\ EndsWith(hostname.chars, domain.chars)

\* hostname === domain || hostname.endsWith(`.${domain}`)
matchesDomain(hostname, domain) ==
    \/ hostname = domain
    \/ /\ hostname.kind = "name"
       /\ domain.kind = "name"
       /\ EndsWith(hostname.chars, <<".">> \o domain.chars)

\* One round of the loop over blockedDomains: the entry makes the URL rejected.
Blocks(hostname, blockedDomain) ==
    LET blocked == toLowerCase(blockedDomain)
    IN  IF blocked.kind = "cidr"
        THEN isIpInCidr(hostname, blocked)
        ELSE matchesDomain(hostname, blocked)

\* isUrlAllowed(url, allowedDomains, blockedDomains)
isUrlAllowed(url, allowed, blocked) ==
    IF url.form = "malformed" THEN FALSE
    ELSE LET hostname == toLowerCase(hostnameOf(url))
         IN  IF \E k \in DOMAIN blocked : Blocks(hostname, blocked[k]) THEN FALSE
             ELSE IF Len(allowed) = 0 THEN TRUE
             ELSE \E k \in DOMAIN allowed :
                     matchesDomain(hostname, toLowerCase(allowed[k]))

(***************************************************************************)
(* The inputs of the filter.                                               *)
(***************************************************************************)
\* Host names of URLs: b, ab, a.b, a.a.b, a, and b with a trailing dot.
HostNames ==
    {Name(<<"b">>), Name(<<"a", "b">>), Name(<<"a", ".", "b">>),
     Name(<<"a", ".", "a", ".", "b">>), Name(<<"a">>), Name(<<"b", ".">>)}

\* Entries of the two lists that name a domain.
DomainEntries ==
    {Name(<<"b">>), Name(<<"B">>), Name(<<"a", ".", "b">>), Name(<<"a">>)}

\* The networks of the IPv4 rules: 10.0.0.0 and 192.168.1.128.
Networks4 == {<<10, 0, 0, 0>>, <<192, 168, 1, 128>>}

\* The address with bit k (1 = the most significant) inverted.
FlipBit(parts, k) ==
    LET o == ((k - 1) \div 8) + 1
        v == 2 ^ (7 - ((k - 1) % 8))
    IN  [parts EXCEPT ![o] = IF (@ \div v) % 2 = 1 THEN @ - v ELSE @ + v]

Addresses4 ==
    Networks4 \cup {FlipBit(n, k) : n \in Networks4, k \in 1..32}
              \cup {<<10, 1, 2, 3>>, <<11, 1, 2, 3>>}

\* Texts after the slash: 0..32, and what is no prefix length of IPv4.
Prefixes4 == {Num(n) : n \in 0..32}

BadPrefixes == {Num(33), Num(-1), NaN}

\* 10.0.0/8 and such: a network that is no dotted quad.
BadNetworks4 == {<<10, 0, 0>>}

\* 2001:db8::, 2001:db8::1, 2001:db9::1, ::1
Addresses6 ==
    {<<8193, 3512, -1, -1>>, <<8193, 3512, -1, 1>>, <<8193, 3513, -1, 1>>,
     <<-1, -1, 1>>}

Prefixes6 == {Num(0), Num(32), Num(64), Num(128)}

\* What isUrlAllowed is called with: a URL, the allow-list, the block-list.
NameInputs ==
    [candidate : {UrlOf(h) : h \in HostNames} \cup {MalformedUrl},
     allowedDomains : SeqsUpTo(DomainEntries, MaxListLen),
     blockedDomains : SeqsUpTo(DomainEntries, MaxListLen)]

Cidr4Inputs ==
    [candidate : {UrlOf(V4(a)) : a \in Addresses4}
                    \cup {UrlOf(Name(<<"a", ".", "a", ".", "a", ".", "b">>))},
     allowedDomains : {<<>>},
     blockedDomains :
        {<<Cidr(V4(n), q)>> : n \in Networks4, q \in Prefixes4 \cup BadPrefixes}
           \cup {<<Cidr(V4(n), q)>> : n \in BadNetworks4, q \in Prefixes4}]

Cidr6Inputs ==
    [candidate : {UrlOf(V6(a, FALSE)) : a \in Addresses6},
     allowedDomains : {<<>>},
     blockedDomains :
        {<<Cidr(V6(n, FALSE), q)>> : n \in Addresses6, q \in Prefixes6 \cup BadPrefixes}]

FilterInputs == NameInputs \cup Cidr4Inputs \cup Cidr6Inputs

InitFilter ==
    /\ \E input \in FilterInputs :
          /\ candidate = input.candidate
          /\ allowedDomains = input.allowedDomains
          /\ blockedDomains = input.blockedDomains
    /\ verdict = "pending"
    /\ RunIdle
    /\ ResolverIdle
    /\ PipelineIdle
    /\ ReportsIdle
    /\ LaterIdle

\* if (isUrlAllowed(trimmedUrl, allowedDomains, blockedDomains)) ... else ...
filterUrl ==
    /\ verdict = "pending"
    /\ verdict' = IF isUrlAllowed(candidate, allowedDomains, blockedDomains)
                  THEN "allowed" ELSE "rejected"
    /\ UNCHANGED <<notFilter, candidate, allowedDomains, blockedDomains>>

NextFilter == filterUrl

SpecFilter == InitFilter /\ [][NextFilter]_vars

(***************************************************************************)
(* Claims about the URL security filter.                                   *)
(***************************************************************************)
Filtered == verdict \in {"allowed", "rejected"}

\* The block-list is one IPv4 rule a.b.c.d/n with n in 0..32, and the URL's
\* host is an IPv4 literal.
OneRule4 ==
    /\ candidate.form = "url"
    /\ candidate.host.kind = "v4"
    /\ Len(blockedDomains) = 1
    /\ blockedDomains[1].kind = "cidr"
    /\ blockedDomains[1].network.kind = "v4"
    /\ Len(blockedDomains[1].network.parts) = 4
    /\ blockedDomains[1].prefix \in Prefixes4

\* C14: under one IPv4 rule of prefix length 0..32 and no allow-list, a host
\* that agrees with the network on the leading prefix bits is rejected, and a
\* host that differs from the network in one bit within the prefix is allowed.
C14_Ipv4CidrBlocks ==
    (Filtered /\ OneRule4 /\ allowedDomains = <<>>) =>
        LET rule == blockedDomains[1]
            ip == candidate.host.parts
        IN  /\ LeadingBitsEqual(rule.network.parts, ip, rule.prefix.n, 8)
                  => verdict = "rejected"
            /\ (\E k \in 1..rule.prefix.n : ip = FlipBit(rule.network.parts, k))
                  => verdict = "allowed"

\* The entry is written as a CIDR rule but its prefix length or its network
\* address is not one.
MalformedCidr(entry) ==
    /\ entry.kind = "cidr"
    /\ \/ entry.prefix.nan
       \/ entry.prefix.n < 0
       \/ entry.network.kind = "v4" /\ entry.prefix.n > 32
       \/ entry.network.kind = "v4" /\ Len(entry.network.parts) # 4
       \/ entry.network.kind = "v6" /\ entry.prefix.n > 128

\* C15: isUrlAllowed returns (it never throws), and it rejects the URL when
\* the URL does not parse or the block-list holds a malformed CIDR entry.
C15_ParseFailureRejects ==
    (/\ Filtered
     /\ \/ candidate.form = "malformed"
        \/ \E k \in DOMAIN blockedDomains : MalformedCidr(blockedDomains[k]))
        => verdict = "rejected"

\* The pieces of a host name between its dots.
RECURSIVE LabelsOf(_)
LabelsOf(chars) ==
    IF \A k \in DOMAIN chars : chars[k] # "." THEN <<chars>>
    ELSE LET dot == CHOOSE k \in DOMAIN chars :
                       chars[k] = "." /\ \A j \in 1..(k - 1) : chars[j] # "."
         IN  <<SubSeq(chars, 1, dot - 1)>> \o LabelsOf(SubSeq(chars, dot + 1, Len(chars)))

\* The host is the domain of the entry or a subdomain of it, letter case
\* aside: the entry's labels are the last labels of the host.
DomainCovers(entry, host) ==
    LET e == LabelsOf(toLowerCase(entry).chars)
        h == LabelsOf(host.chars)
    IN  /\ Len(e) <= Len(h)
        /\ SubSeq(h, Len(h) - Len(e) + 1, Len(h)) = e

\* The call has a URL that parses and lists of domain names only.
DomainLists ==
    /\ candidate.form = "url"
    /\ candidate.host.kind = "name"
    /\ \A k \in DOMAIN allowedDomains : allowedDomains[k].kind = "name"
    /\ \A k \in DOMAIN blockedDomains : blockedDomains[k].kind = "name"

\* C16: the URL is allowed exactly when no block-list entry covers its host
\* and the allow-list is empty or has an entry that covers it.
C16_AllowedExactlyWhen ==
    (Filtered /\ DomainLists) =>
        (verdict = "allowed" <=>
            /\ \A k \in DOMAIN blockedDomains :
                  ~DomainCovers(blockedDomains[k], candidate.host)
            /\ \/ allowedDomains = <<>>
               \/ \E k \in DOMAIN allowedDomains :
                     DomainCovers(allowedDomains[k], candidate.host))

\* A host covered by both lists was rejected, while the block-list also held
\* an entry that the host merely ends with (a.a.b against a).
C16_Witness ==
    /\ Filtered
    /\ candidate = UrlOf(Name(<<"a", ".", "a", ".", "b">>))
    /\ allowedDomains = <<Name(<<"b">>)>>
    /\ blockedDomains = <<Name(<<"a">>), Name(<<"a", ".", "b">>)>>
    /\ verdict = "rejected"

\* C17: a URL whose host is an IPv6 literal inside an IPv6 range of the
\* block-list is rejected.
C17_Ipv6CidrBlocks ==
    (/\ Filtered
     /\ candidate.form = "url"
     /\ candidate.host.kind = "v6"
     /\ Len(blockedDomains) = 1
     /\ blockedDomains[1].kind = "cidr"
     /\ blockedDomains[1].network.kind = "v6"
     /\ blockedDomains[1].prefix \in Prefixes6
     /\ LeadingBitsEqual(ipv6ToBinary(blockedDomains[1].network),
                         ipv6ToBinary(candidate.host),
                         blockedDomains[1].prefix.n, 16))
        => verdict = "rejected"

(***************************************************************************)
(* The Reports Index: server/reports.ts (dashboard) and                    *)
(* readLatestRunTimestamp (scheduler).                                     *)
(***************************************************************************)
\* Longest runs array of index.json.
MaxRuns == 2
\* Changes made to storage while the index is being read.
MaxFsChanges == 1
\* Dashboard reads that are told apart.
MaxReads == 2

notReports == <<runVars, resolveVars, pipelineVars, filterVars, laterVars>>

\* The summary files and result directories entries refer to.
Paths == {"s1", "d1", "s2", "d2"}

RunEntry(runId, summaryJson, resultsDir) ==
    [object |-> TRUE, runId |-> runId, summaryJson |-> summaryJson,
     resultsDir |-> resultsDir]

\* The entries of a runs array: two runs, a run whose summaryJson is no
\* string, and null.
IndexEntries ==
    {RunEntry("r1", "s1", "d1"), RunEntry("r2", "s2", "d2"),
     RunEntry("r1", "#number", "d1"), NoEntry}

\* index.json: not there, not JSON, JSON without a runs array, or a document
\* with a runs array.
IndexFiles ==
    {[kind |-> k, runs |-> <<>>] : k \in {"missing", "unparsable", "noRuns"}}
       \cup {[kind |-> "runs", runs |-> r] : r \in SeqsUpTo(IndexEntries, MaxRuns)}

\* typeof value === 'string'
IsString(value) == value # "#number"

KeepsOnce(entry) ==
    /\ reads = 0
    /\ entry.object
    /\ entry.summaryJson \in existing
    /\ entry.resultsDir \in existing

\* The filter of ensureReportsIndex: summaryExists && resultsExists
Keeps(entry) ==
    /\ entry.object
    /\ IsString(entry.summaryJson) /\ entry.summaryJson \in existing
    /\ IsString(entry.resultsDir) /\ entry.resultsDir \in existing

Rethrows == [ok |-> FALSE, runs |-> <<>>]

\* catch { return { runs: [] }; }
onParseError == [ok |-> TRUE, runs |-> <<>>]

\* ensureReportsIndex(): `io` says that readFile rejects, which happens
\* outside the try block.
ensureReportsIndex(io) ==
    CASE indexFile.kind = "missing" -> [ok |-> TRUE, runs |-> <<>>]
      [] indexFile.kind # "missing" /\ io -> [ok |-> FALSE, runs |-> <<>>]
      [] indexFile.kind = "unparsable" /\ ~io -> onParseError
      [] indexFile.kind = "noRuns" /\ ~io -> [ok |-> TRUE, runs |-> <<>>]
      [] indexFile.kind = "runs" /\ ~io ->
            [ok |-> TRUE, runs |-> SelectSeq(indexFile.runs, Keeps)]

\* index.runs.find((entry) => entry.runId === runId)
Find(runs, runId) ==
    IF \E k \in DOMAIN runs : runs[k].runId = runId
    THEN runs[CHOOSE k \in DOMAIN runs :
                 /\ runs[k].runId = runId
                 /\ \A j \in 1..(k - 1) : runs[j].runId # runId]
    ELSE NoEntry

\* readRunSummary(runId): "summary", "null", or "throws".
readRunSummary(runId, io, summaryParses) ==
    LET index == ensureReportsIndex(io)
        match == Find(index.runs, runId)
    IN  CASE runId = "" -> "null"
          [] runId # "" /\ ~index.ok -> "throws"
          [] runId # "" /\ index.ok /\ match = NoEntry -> "null"
          [] runId # "" /\ index.ok /\ match # NoEntry ->
                IF match.summaryJson \notin existing THEN "null"
                ELSE IF io THEN "throws"
                ELSE IF summaryParses THEN "summary" ELSE "null"

InitReports ==
    /\ LaterIdle
    /\ indexFile \in IndexFiles
    /\ existing \in SUBSET Paths
    /\ fsChanges = 0
    /\ changed = FALSE
    /\ reads = 0
    /\ lastRead = [ok |-> TRUE, runs |-> <<>>, io |-> FALSE]
    /\ response = NoResponse
    /\ latestUsed = NoEntry
    /\ RunIdle
    /\ ResolverIdle
    /\ PipelineIdle
    /\ FilterIdle

\* A run directory or a summary is removed or written, or index.json is
\* removed.
fsChange ==
    /\ fsChanges < MaxFsChanges
    /\ fsChanges' = fsChanges + 1
    /\ changed' = TRUE
    /\ \/ /\ \E f \in Paths :
               existing' = IF f \in existing THEN existing \ {f} ELSE existing \cup {f}
          /\ UNCHANGED indexFile
       \/ /\ indexFile.kind # "missing"
          /\ indexFile' = [kind |-> "missing", runs |-> <<>>]
          /\ UNCHANGED existing
    /\ UNCHANGED <<notReports, reads, lastRead, response, latestUsed>>

\* The dashboard calls readReportsIndex().
readReportsIndex ==
    /\ reads < MaxReads
    /\ \E io \in BOOLEAN :
          LET index == ensureReportsIndex(io)
          IN  lastRead' = [ok |-> index.ok, runs |-> index.runs, io |-> io]
    /\ reads' = reads + 1
    /\ changed' = FALSE
    /\ UNCHANGED <<notReports, indexFile, existing, fsChanges, response, latestUsed>>

\* GET /api/runs/[id]
GET ==
    /\ \E runId \in {"", "r1", "r2"}, io \in BOOLEAN, summaryParses \in BOOLEAN :
          LET summary == readRunSummary(runId, io, summaryParses)
          IN  response' =
                 CASE runId = "" -> [status |-> 400, io |-> FALSE]
                   [] runId # "" /\ summary = "throws" -> [status |-> 500, io |-> io]
                   [] runId # "" /\ summary = "null" -> [status |-> 404, io |-> io]
                   [] runId # "" /\ summary = "summary" -> [status |-> 200, io |-> io]
    /\ UNCHANGED <<notReports, indexFile, existing, fsChanges, changed, reads, lastRead,
                   latestUsed>>

\* readLatestRunTimestamp() of the scheduler: the date of runs[0], or null.
\* Every failure to read or parse is caught and gives null.
readLatestRunTimestamp ==
    /\ \E io \in BOOLEAN :
          latestUsed' =
             IF ~io /\ indexFile.kind = "runs" /\ Len(indexFile.runs) > 0
                /\ indexFile.runs[1].object
             THEN indexFile.runs[1]
             ELSE NoEntry
    /\ UNCHANGED <<notReports, indexFile, existing, fsChanges, changed, reads, lastRead,
                   response>>

NextReports ==
    \/ fsChange
    \/ readReportsIndex
    \/ GET
    \/ readLatestRunTimestamp

SpecReports == InitReports /\ [][NextReports]_vars

(***************************************************************************)
(* Claims about the Reports Index.                                         *)
(***************************************************************************)
\* The summary artifact and the result directory of the entry are on storage.
ArtifactsExist(entry) ==
    entry.summaryJson \in existing /\ entry.resultsDir \in existing

\* C18: whichever reader reads the index, the dashboard or the scheduler, the
\* entries it goes on to use have their summary and their result directory on
\* storage at the time of the read.
C18_EveryReadRevalidates ==
    [][/\ (reads' # reads /\ lastRead'.ok) =>
             \A k \in DOMAIN lastRead'.runs : ArtifactsExist(lastRead'.runs[k])
       /\ (latestUsed' # latestUsed /\ latestUsed' # NoEntry) =>
             ArtifactsExist(latestUsed')]_vars

NoUsableIndex == indexFile.kind \in {"missing", "unparsable", "noRuns"}

\* C20: with a missing or unparsable index, or one without a runs array, a
\* read that meets no I/O error gives the empty run list, and a request for
\* a run summary is answered 'not found'.
C20_BrokenIndexReadsEmpty ==
    [][/\ (reads' # reads /\ NoUsableIndex /\ ~lastRead'.io) =>
             (lastRead'.ok /\ lastRead'.runs = <<>>)
       /\ (response' # response /\ response'.status # 400 /\ NoUsableIndex
              /\ ~response'.io) =>
             response'.status = 404]_vars

\* An index file that is no JSON was read as empty and a summary request
\* was answered 'not found'.
C20_Witness ==
    /\ indexFile.kind = "unparsable"
    /\ reads >= 1
    /\ lastRead.ok /\ ~lastRead.io
    /\ response.status = 404 /\ ~response.io

(***************************************************************************)
(* Further claims about the audit run.                                     *)
(***************************************************************************)
\* C21: without concurrency (disabled, or a single URL) an audit is dispatched
\* only when every earlier URL of the list has settled and no later one has
\* left the list, and at least delayBetweenRequests after the previous
\* dispatch for the same hostname.
C21_SequentialInOrder ==
    [][~Concurrent =>
          \A i \in Urls :
             Dispatched(i) =>
                /\ \A j \in Urls : j < i => pc[j] = "settled"
                /\ \A j \in Urls : j > i => pc[j] = "queued"
                /\ domainLastRequest[urls[i]] = -1
                      \/ domainLastRequest[urls[i]] >= cfg.delayBetweenRequests]_vars

\* Concurrency is disabled, the delay is not zero, and the second URL, of the
\* same hostname as the first, has just been dispatched after the first one
\* settled.
C21_Witness ==
    /\ ~cfg.enableConcurrency
    /\ cfg.delayBetweenRequests > 0
    /\ Len(urls) >= 2
    /\ urls[1] = urls[2]
    /\ pc[1] = "settled"
    /\ pc[2] = "init"
    /\ domainLastRequest[urls[2]] = 0

\* C22: when the run completes, successful is the number of URLs whose task
\* was fulfilled with success = true, and failed is the number of all other
\* URLs of the list, rejected tasks included.
C22_CountsAddUp ==
    proc = "done" =>
       /\ successful + failed = Len(urls)
       /\ successful = Cardinality({i \in Urls : results[i] = SuccessValue})
       /\ failed = Cardinality({i \in Urls : results[i] # SuccessValue})

\* A completed run of three URLs: two succeeded, one failed.
C22_Witness ==
    /\ proc = "done"
    /\ successful = 2
    /\ failed = 1

\* C23: after SIGINT or SIGTERM no audit is dispatched any more, and when the
\* process exits the browser has been closed.
C23_SignalStopsRun ==
    [][/\ proc = "stopping" => \A i \in Urls : ~Dispatched(i)
       /\ proc' = "exited" => browser' = "closed"]_vars

\* C24: a navigation starts only on a page that carries the configured
\* navigation timeout, and the audit runs on such a page.
C24_TimeoutInForce ==
    \A i \in Urls :
       /\ gotoTimeout[i] # "none" => gotoTimeout[i] = "configured"
       /\ pc[i] = "audit" => pageTimeout[i] = "configured"

(***************************************************************************)
(* Sessions: src/server/auth.ts and src/middleware.ts.                     *)
(*                                                                         *)
(* Time is counted in clock ticks, TicksPerSecond of them to the second:   *)
(* Date.now() is `now`, Math.floor(Date.now() / 1000) is                   *)
(* now \div TicksPerSecond, and exp * 1000 is exp * TicksPerSecond.        *)
(* A token is [form, sub, exp, key]: the payload {sub, exp} and the key    *)
(* its signature was made with.  A pathname is [segments, ext]: the        *)
(* segments between the slashes and what follows the last dot.             *)
(***************************************************************************)
TicksPerSecond == 2

FOUR_HOURS_IN_SECONDS == 14400

THIRTY_DAYS_IN_SECONDS == 2592000

notAuth == <<runVars, resolveVars, pipelineVars, filterVars, reportVars, scheduleVars,
             listVars, nameVars, finalVars>>

\* createHmac("sha256", SESSION_SECRET): the key of the server.
SESSION_SECRET == "secret"

\* signPayload(encodedPayload): the signature is made with the server's key.
signPayload(payload) == SESSION_SECRET

\* buildToken(payload): `${encoded}.${signature}`
buildToken(payload) ==
    [form |-> "token", sub |-> payload.sub, exp |-> payload.exp,
     key |-> signPayload(payload)]

\* parseToken(token): the payload, or null (NoToken) when the token is
\* missing, has no two parts, carries a signature of another length or
\* another value, or has expired.
parseToken(token) ==
    IF token.form = "none" THEN NoToken
    ELSE IF token.form = "nodot" THEN NoToken
    ELSE IF token.form = "short" THEN NoToken
    ELSE IF token.key # signPayload(token) THEN NoToken
    ELSE IF token.exp * TicksPerSecond < now THEN NoToken
    ELSE token

resolveExpirySwapped(rememberMe) ==
    (now \div TicksPerSecond)
       + (IF rememberMe THEN FOUR_HOURS_IN_SECONDS ELSE THIRTY_DAYS_IN_SECONDS)

\* resolveExpiry(rememberMe): Math.floor(Date.now() / 1000) + maxAge
resolveExpiry(rememberMe) ==
    (now \div TicksPerSecond)
       + (IF rememberMe THEN THIRTY_DAYS_IN_SECONDS ELSE FOUR_HOURS_IN_SECONDS)

Path(segments, ext) == [segments |-> segments, ext |-> ext]

PUBLIC_PATHS == {Path(<<"login">>, ""), Path(<<"api", "login">>, ""),
                 Path(<<"api", "logout">>, "")}

\* The prefixes that end with a slash, and those that do not.
PUBLIC_PREFIXES == {"_astro", "_image", "img", "fonts", ".well-known"}

PUBLIC_NAME_PREFIXES == {"favicon", "robots", "manifest"}

PUBLIC_EXTENSIONS == {".css", ".js", ".png", ".ico"}

\* pathname.slice(lastDot).toLowerCase()
LowerCaseExt(ext) == IF ext = ".PNG" THEN ".png" ELSE ext

\* isStaticAsset(pathname): decided from the text of the pathname alone.
isStaticAsset(pathname) ==
    \/ pathname \in PUBLIC_PATHS
    \/ /\ Len(pathname.segments) >= 2
       /\ pathname.segments[1] \in PUBLIC_PREFIXES
    \/ /\ Len(pathname.segments) >= 1
       /\ pathname.segments[1] \in PUBLIC_NAME_PREFIXES
    \/ /\ pathname.ext # ""
       /\ LowerCaseExt(pathname.ext) \in PUBLIC_EXTENSIONS

\* The routes of src/pages: the pages, the API endpoints, and the dynamic
\* route api/runs/[id], whose parameter takes the whole last segment, dots
\* included.  Every other pathname is a file of the build or nothing.
HasHandler(pathname) ==
    \/ /\ pathname.ext = ""
       /\ pathname.segments \in {<<>>, <<"login">>, <<"api", "login">>,
                                 <<"api", "logout">>, <<"api", "settings">>}
    \/ /\ Len(pathname.segments) = 3
       /\ pathname.segments[1] = "api"
       /\ pathname.segments[2] = "runs"

\* onRequest(context, next): what the middleware does with the request.
onRequest(method, pathname, token) ==
    IF ~authEnabled THEN "next"
    ELSE IF method = "OPTIONS" THEN "next"
    ELSE IF isStaticAsset(pathname) THEN "next"
    ELSE IF pathname = Path(<<"login">>, "")
         THEN (IF parseToken(token) # NoToken THEN "redirect /" ELSE "next")
    ELSE IF parseToken(token) # NoToken THEN "next"
    ELSE IF Len(pathname.segments) >= 2 /\ pathname.segments[1] = "api" THEN "401"
    ELSE "redirect /login"

\* The instants the clock visits: around the login, around four hours and
\* around thirty days.
Instants ==
    {base + k : base \in {0, FOUR_HOURS_IN_SECONDS * TicksPerSecond,
                          THIRTY_DAYS_IN_SECONDS * TicksPerSecond},
                k \in 0..TicksPerSecond}

\* The pathnames requested.
Pathnames ==
    {Path(<<>>, ""), Path(<<"login">>, ""), Path(<<"api", "logout">>, ""),
     Path(<<"api", "settings">>, ""), Path(<<"api", "runs", "r1">>, ""),
     Path(<<"api", "runs", "r1">>, ".js"), Path(<<"_astro", "app">>, ".js"),
     Path(<<"img", "logo">>, ".PNG"), Path(<<"favicon">>, ".ico")}

\* The tokens a client may send besides its cookie: none, one without a dot,
\* one with a signature of another length, one signed with another key.
ForeignTokens ==
    {NoToken,
     [form |-> "nodot", sub |-> "admin", exp |-> 0, key |-> ""],
     [form |-> "short", sub |-> "admin", exp |-> 2 * THIRTY_DAYS_IN_SECONDS, key |-> "s"],
     [form |-> "token", sub |-> "admin", exp |-> 2 * THIRTY_DAYS_IN_SECONDS,
      key |-> "other"]}

InitAuth ==
    /\ RunIdle
    /\ ResolverIdle
    /\ PipelineIdle
    /\ FilterIdle
    /\ ReportsIdle
    /\ ScheduleIdle
    /\ ListIdle
    /\ NamesIdle
    /\ FinalIdle
    /\ authEnabled \in BOOLEAN
    /\ now \in 0..(TicksPerSecond - 1)
    /\ cookie = NoToken
    /\ issued = [at |-> 0, rememberMe |-> FALSE]
    /\ answer = NoAnswer

\* Time passes.
advanceClock ==
    /\ \E later \in Instants : later > now /\ now' = later
    /\ UNCHANGED <<notAuth, authEnabled, cookie, issued, answer>>

\* createSession(cookies, username, rememberMe, request), called by the login
\* endpoint once the credentials were verified.  One login is followed.
createSession ==
    /\ cookie = NoToken
    /\ \E rememberMe \in BOOLEAN :
          /\ cookie' = buildToken([sub |-> "admin", exp |-> resolveExpiry(rememberMe)])
          /\ issued' = [at |-> now, rememberMe |-> rememberMe]
    /\ UNCHANGED <<notAuth, authEnabled, now, answer>>

\* A request arrives, with the cookie or with a token of the client's making.
request ==
    /\ \E method \in {"GET", "OPTIONS"}, pathname \in Pathnames,
          token \in ForeignTokens \cup {cookie} :
          answer' = [method |-> method, path |-> pathname, token |-> token,
                     at |-> now, result |-> onRequest(method, pathname, token)]
    /\ UNCHANGED <<notAuth, authEnabled, now, cookie, issued>>

NextAuth ==
    \/ advanceClock
    \/ createSession
    \/ request

SpecAuth == InitAuth /\ [][NextAuth]_vars

(***************************************************************************)
(* Claims about sessions.                                                  *)
(***************************************************************************)
\* The token carries a signature of the server and its expiry has not passed
\* at the instant `at`.
ValidSession(token, at) ==
    /\ token.form = "token"
    /\ token.key = "secret"
    /\ at <= token.exp * TicksPerSecond

\* The request answered last is one the middleware has to guard: the
\* authentication is on, the method is not OPTIONS, and the pathname is no
\* login or logout endpoint and is served by a page or an API handler.
Guarded ==
    /\ authEnabled
    /\ answer.result # "none"
    /\ answer.method # "OPTIONS"
    /\ answer.path \notin PUBLIC_PATHS
    /\ HasHandler(answer.path)

\* C25: a guarded request reaches its handler only with a valid, unexpired
\* session token; without one it is answered 401 under /api/ and redirected
\* to /login elsewhere.
C25_HandlersNeedSession ==
    Guarded =>
       IF ValidSession(answer.token, answer.at)
       THEN answer.result = "next"
       ELSE answer.result = (IF Len(answer.path.segments) >= 2
                                /\ answer.path.segments[1] = "api"
                             THEN "401" ELSE "redirect /login")

\* The last request carried the cookie of the last login and was made for a
\* page that needs a session.
WithSession ==
    /\ authEnabled
    /\ answer.token = cookie
    /\ cookie # NoToken
    /\ answer.at >= issued.at
    /\ answer.method = "GET"
    /\ answer.path = Path(<<>>, "")

\* Whole seconds between the login and the last request.
SessionAge == (answer.at \div TicksPerSecond) - (issued.at \div TicksPerSecond)

\* C26: a request made less than 30 days (with 'Keep me signed in') or 4 hours
\* (without) after the login is let through, one made later is not.
C26_SessionLifetime ==
    WithSession =>
       LET lifetime == IF issued.rememberMe THEN 30 * 24 * 60 * 60 ELSE 4 * 60 * 60
       IN  /\ SessionAge < lifetime => answer.result = "next"
           /\ SessionAge > lifetime => answer.result = "redirect /login"

\* A session kept for 30 days is accepted after more than four hours, and one
\* not kept is refused then.
C26_Witness ==
    /\ WithSession
    /\ SessionAge > 4 * 60 * 60
    /\ SessionAge < 30 * 24 * 60 * 60
    /\ issued.rememberMe
    /\ answer.result = "next"

(***************************************************************************)
(* The resident scheduler: script/scheduler.mjs with script/config.mjs.    *)
(*                                                                         *)
(* cron calls maybeRunPipeline every day at 03:00.  Time is counted in     *)
(* clock ticks, DayTicks of them to the day (DAY_IN_MS); check number d    *)
(* happens at d * DayTicks.  A run timestamp is [day, lag]: the check that *)
(* started the run and the ticks that passed until the reporter took the   *)
(* time.  Settings are [frequency, version], `version` standing for the    *)
(* sitemap URL, the tags, the mode and the page limit.                     *)
(***************************************************************************)
DayTicks == 2

\* The last daily check followed.
MaxDays == 32

notSchedule == <<runVars, resolveVars, pipelineVars, filterVars, reportVars, authVars,
                 listVars, nameVars, finalVars>>

FREQUENCY_INTERVAL_DAYS == [daily |-> 1, weekly |-> 7, monthly |-> 30]

SettingsChoices == [frequency : {"daily", "weekly", "monthly"}, version : {1, 2}]

\* readSettings(): data/settings.json is read and normalised anew.
readSettings == settingsFile

\* getCurrentSettings(): loadSettings(), which is readSettings(), never throws.
getCurrentSettings == readSettings

\* new Date(timestamp).getTime() of a run timestamp, and Date.now() of a check.
getTime(run) == run.day * DayTicks + run.lag

\* evaluateSchedule(frequency).shouldRun
evaluateSchedule(frequency, check) ==
    LET intervalDays == FREQUENCY_INTERVAL_DAYS[frequency]
        diffMs == check * DayTicks - getTime(latestRun)
    IN  \/ frequency = "daily"
        \/ latestRun = NoRun
        \/ diffMs > 0 /\ diffMs >= intervalDays * DayTicks

InitSchedule ==
    /\ RunIdle
    /\ ResolverIdle
    /\ PipelineIdle
    /\ FilterIdle
    /\ ReportsIdle
    /\ AuthIdle
    /\ ListIdle
    /\ NamesIdle
    /\ FinalIdle
    /\ settingsFile \in SettingsChoices
    /\ day = 0
    /\ latestRun = NoRun
    /\ decision = NoDecision
    /\ runStep = "idle"
    /\ used = NothingLoaded
    /\ atStart = NoSettings

\* The dashboard saves the settings.
saveSettings ==
    /\ \E settings \in SettingsChoices :
          /\ settings # settingsFile
          /\ settingsFile' = settings
    /\ UNCHANGED <<notSchedule, day, latestRun, decision, runStep, used, atStart>>

\* The cron callback of 03:00: maybeRunPipeline() reloads the settings,
\* evaluates the schedule and either calls runPipeline(), which spawns
\* generate-url-list.mjs, or logs that the run is skipped.
maybeRunPipeline ==
    /\ runStep = "idle"
    /\ day < MaxDays
    /\ day' = day + 1
    /\ LET settings == getCurrentSettings
           shouldRun == evaluateSchedule(settings.frequency, day')
       IN  /\ decision' = [day |-> day', frequency |-> settings.frequency,
                           shouldRun |-> shouldRun, lastRun |-> latestRun]
           /\ IF shouldRun
              THEN /\ runStep' = "generate"
                   /\ used' = [NothingLoaded EXCEPT !.scheduler = settings]
                   /\ atStart' = settingsFile
              ELSE UNCHANGED <<runStep, used, atStart>>
    /\ UNCHANGED <<notSchedule, settingsFile, latestRun>>

\* generate-url-list.mjs starts: importing config.mjs reads the settings
\* (runtimeSettings); the script resolves the sitemap and exits, and
\* runPipeline spawns axe-auto-reporter.mjs.
generateUrlList ==
    /\ runStep = "generate"
    /\ used' = [used EXCEPT !.generate = readSettings]
    /\ runStep' = "reporter"
    /\ UNCHANGED <<notSchedule, settingsFile, day, latestRun, decision, atStart>>

\* axe-auto-reporter.mjs starts: importing config.mjs reads the settings
\* (config.tags, config.mode); the script audits and exits, and runPipeline
\* spawns build-summary.mjs.
reporter ==
    /\ runStep = "reporter"
    /\ used' = [used EXCEPT !.reporter = readSettings]
    /\ runStep' = "summary"
    /\ UNCHANGED <<notSchedule, settingsFile, day, latestRun, decision, atStart>>

\* build-summary.mjs and the build end: the run, stamped with the time the
\* reporter took for its result folder, becomes runs[0] of the index; or a
\* step has failed and the index stays as it was.
summary ==
    /\ runStep = "summary"
    /\ \E ok \in BOOLEAN, lag \in 0..(DayTicks - 1) :
          latestRun' = IF ok THEN [day |-> day, lag |-> lag] ELSE latestRun
    /\ runStep' = "idle"
    /\ used' = NothingLoaded
    /\ atStart' = NoSettings
    /\ UNCHANGED <<notSchedule, settingsFile, day, decision>>

NextSchedule ==
    \/ saveSettings
    \/ maybeRunPipeline
    \/ generateUrlList
    \/ reporter
    \/ summary

SpecSchedule == InitSchedule /\ [][NextSchedule]_vars

(***************************************************************************)
(* Claims about the scheduler.                                             *)
(***************************************************************************)
\* C27: a check under 'daily' starts a run; a check with no previous run
\* starts a run; under 'weekly' and 'monthly' a check starts a run exactly
\* when it is at least 7, resp. 30, checks after the one that started the
\* previous run, so that consecutive runs are 7, resp. 30, checks apart.
C27_FollowsFrequency ==
    decision # NoDecision =>
       LET apart == decision.day - decision.lastRun.day
       IN  /\ decision.frequency = "daily" => decision.shouldRun
           /\ decision.lastRun = NoRun => decision.shouldRun
           /\ (decision.frequency = "weekly" /\ decision.lastRun # NoRun) =>
                 (decision.shouldRun <=> apart >= 7)
           /\ (decision.frequency = "monthly" /\ decision.lastRun # NoRun) =>
                 (decision.shouldRun <=> apart >= 30)

\* C28: whatever a process of a run has loaded as its settings is what was
\* stored in data/settings.json when the run started.
C28_SettingsOfRunStart ==
    runStep # "idle" =>
       /\ used.scheduler = atStart
       /\ used.generate # NoSettings => used.generate = atStart
       /\ used.reporter # NoSettings => used.reporter = atStart

(***************************************************************************)
(* The URL list between the resolver and the audit: url-list.txt is what   *)
(* an earlier run or a hand left there until generate-url-list.mjs         *)
(* rewrites it, and axe-auto-reporter.mjs reads it line by line.           *)
(*                                                                         *)
(* Forms of a line: "plain" (http://... that new URL accepts), "padded"    *)
(* (the same between blanks), "malformed" (http://... that new URL         *)
(* rejects), "nonhttp" (ftp://...), "upper" (HTTP://...), "blank".         *)
(***************************************************************************)
MaxLines == 2

notList == <<runVars, pipelineVars, filterVars, reportVars, authVars, scheduleVars,
             nameVars, finalVars>>

\* rawUrl.trim()
trim(line) ==
    CASE line.form = "padded" -> Str(line.id, "plain")
      [] line.form = "blank" -> NoUrl
      [] OTHER -> line

\* trimmed.startsWith('http://') || trimmed.startsWith('https://')
startsWithHttp(str) == str.form \in {"plain", "canonical", "malformed"}

\* new URL(trimmed) does not throw.
newURL(str) == str.form \in {"plain", "canonical", "nonhttp", "upper"}

isValidUrlByPrefix(url) ==
    LET trimmed == trim(url)
    IN  trimmed # NoUrl /\ startsWithHttp(trimmed)

\* isValidUrl(url)
isValidUrl(url) ==
    LET trimmed == trim(url)
    IN  /\ trimmed # NoUrl
        /\ startsWithHttp(trimmed)
        /\ newURL(trimmed)

\* The for loop over rawUrls: the lines that are valid and allowed are
\* pushed, trimmed, to `urls`; `blocked` are the pages the domain lists of
\* the configuration reject.
RECURSIVE TakeUrls(_, _)
TakeUrls(lines, blocked) ==
    IF lines = <<>> THEN <<>>
    ELSE LET trimmedUrl == trim(Head(lines))
             rest == TakeUrls(Tail(lines), blocked)
         IN  IF isValidUrl(trimmedUrl) /\ trimmedUrl.id \notin blocked
             THEN <<trimmedUrl>> \o rest
             ELSE rest

\* The lines that end in invalidUrls or blockedUrls, or nowhere.
RECURSIVE SkipUrls(_, _)
SkipUrls(lines, blocked) ==
    IF lines = <<>> THEN <<>>
    ELSE LET trimmedUrl == trim(Head(lines))
             rest == SkipUrls(Tail(lines), blocked)
         IN  IF isValidUrl(trimmedUrl) /\ trimmedUrl.id \notin blocked
             THEN rest
             ELSE <<Head(lines)>> \o rest

\* The lines of a url-list.txt that was not written by this resolution.
FileLines == {Str("u1", "plain"), Str("u2", "padded"), Str("u1", "nonhttp"),
              Str("u2", "malformed"), Str("u3", "upper"), Str("", "blank")}

InitUrlList ==
    /\ RunIdle
    /\ PipelineIdle
    /\ FilterIdle
    /\ ReportsIdle
    /\ AuthIdle
    /\ ScheduleIdle
    /\ NamesIdle
    /\ FinalIdle
    /\ sitemapUrl \in RootChoices
    /\ limit \in 1..MaxPages
    /\ phase = "start"
    /\ visitedSitemaps = {}
    /\ collected = <<>>
    /\ stack = <<>>
    /\ fetched = [u \in {} |-> 0]
    /\ seenLocations = {}
    /\ referenced = {}
    /\ met = <<>>
    /\ urlListFile \in SeqsUpTo(FileLines, MaxLines)
    /\ listState = "unread"
    /\ urlsRead = <<>>
    /\ skipped = <<>>

\* axe-auto-reporter.mjs reads url-list.txt once the resolver has ended:
\* the lines are filtered into `urls`, and the script throws when none is
\* left.
readUrlList ==
    /\ phase \in {"done", "skipped", "failed"}
    /\ listState = "unread"
    /\ \E blocked \in SUBSET PageIds :
          /\ urlsRead' = TakeUrls(urlListFile, blocked)
          /\ skipped' = SkipUrls(urlListFile, blocked)
    /\ listState' = IF urlsRead' = <<>> THEN "No valid URLs found" ELSE "read"
    /\ UNCHANGED <<notList, resolveVars>>

NextUrlList ==
    \/ main
    \/ fetchSitemap
    \/ indexLoop
    \/ writeUrlList
    \/ readUrlList

SpecUrlList == InitUrlList /\ [][NextUrlList]_vars

(***************************************************************************)
(* Claims about the URL list.                                              *)
(***************************************************************************)
\* The text starts with http:// or https:// and is an absolute URL.
HttpAbsolute(str) == str.form \in {"plain", "canonical"}

\* C29: what the resolver writes to the URL list, and what the reporter
\* takes from the list for the audit, are absolute http(s) URLs; every line
\* that is none, once trimmed, is among the lines skipped.
C29_OnlyHttpPasses ==
    /\ phase = "done" => \A k \in DOMAIN urlListFile : HttpAbsolute(urlListFile[k])
    /\ \A k \in DOMAIN urlsRead : HttpAbsolute(urlsRead[k])
    /\ listState # "unread" =>
          /\ Len(urlsRead) + Len(skipped) = Len(urlListFile)
          /\ \A k \in DOMAIN urlListFile :
                (urlListFile[k].form \notin {"plain", "padded", "canonical"})
                   => \E j \in DOMAIN skipped : skipped[j] = urlListFile[k]

\* A list not rewritten by the resolver was read: a padded URL was taken and
\* a line that starts with http:// but is no URL was skipped.
C29_Witness ==
    /\ listState = "read"
    /\ \E k \in DOMAIN urlListFile : urlListFile[k].form = "padded"
    /\ \E k \in DOMAIN skipped : skipped[k].form = "malformed"
    /\ urlsRead = <<Str("u2", "plain")>>

(***************************************************************************)
(* Artifact names: script/utils/filename.mjs and saveResults.              *)
(*                                                                         *)
(* A text is a sequence of characters; "." stands for the characters       *)
(* outside [a-zA-Z0-9-_].  A URL is [scheme, hostname, segments, search],  *)
(* `segments` being the texts between the slashes of its path.  A base     *)
(* filename is [chars, hashes]: its text without the hash suffixes, and    *)
(* the values the suffixes were computed from (createHashSuffix is taken   *)
(* as free of collisions).                                                 *)
(***************************************************************************)
MaxSegments == 2

notNames == <<runVars, resolveVars, pipelineVars, filterVars, reportVars, authVars,
              scheduleVars, listVars, finalVars>>

\* .replace(/[^a-zA-Z0-9-_]+/g, '-'): each run of other characters gives one "-".
RECURSIVE ReplaceOthers(_, _)
ReplaceOthers(text, inRun) ==
    IF text = <<>> THEN <<>>
    ELSE IF Head(text) = "."
         THEN (IF inRun THEN <<>> ELSE <<"-">>) \o ReplaceOthers(Tail(text), TRUE)
         ELSE <<Head(text)>> \o ReplaceOthers(Tail(text), FALSE)

\* .replace(/^-+|-+$/g, '')
RECURSIVE StripDashes(_)
StripDashes(text) ==
    IF text = <<>> THEN <<>>
    ELSE IF Head(text) = "-" THEN StripDashes(Tail(text))
    ELSE IF text[Len(text)] = "-" THEN StripDashes(SubSeq(text, 1, Len(text) - 1))
    ELSE text

\* .toLowerCase()
LowerCase(text) == [k \in DOMAIN text |-> IF text[k] = "A" THEN "a" ELSE text[k]]

\* sanitizeSegment(segment)
sanitizeSegment(segment) == LowerCase(StripDashes(ReplaceOthers(segment, FALSE)))

\* [hostSegment, ...pathSegments].join('-')
RECURSIVE Join(_)
Join(texts) ==
    IF texts = <<>> THEN <<>>
    ELSE IF Len(texts) = 1 THEN Head(texts)
    ELSE Head(texts) \o <<"-">> \o Join(Tail(texts))

\* generateBaseFilename(url), for a URL that new URL() accepts.
generateBaseFilename(url) ==
    LET host == sanitizeSegment(url.hostname)
        hostSegment == IF host = <<>> THEN <<"r", "o", "o", "t">> ELSE host
        pathSegments == SelectSeq([k \in DOMAIN url.segments |->
                                      sanitizeSegment(url.segments[k])],
                                  LAMBDA t : t # <<>>)
        base == Join(<<hostSegment>> \o pathSegments)
        withSearch == IF url.search # "" THEN <<url.search>> ELSE <<>>
        length == Len(base) + (IF url.search # "" THEN 7 ELSE 0)
    IN  IF length > 120
        THEN [chars |-> SubSeq(base, 1, Min(Len(base), 110)),
              hashes |-> withSearch \o <<base>>]
        ELSE [chars |-> base, hashes |-> withSearch]

\* The texts of a path segment.
SegmentTexts == {<<"a">>, <<"A">>, <<"b">>, <<"a", "-", "b">>, <<"a", ".", "b">>}

\* The URLs of a run.
CandidateUrls ==
    [scheme : {"http", "https"},
     hostname : {<<"h", ".", "t">>},
     segments : SeqsUpTo(SegmentTexts, MaxSegments),
     search : {"", "?q"}]

\* The run has two URLs, distinct as the resolver leaves them.
InitNames ==
    /\ RunIdle
    /\ ResolverIdle
    /\ PipelineIdle
    /\ FilterIdle
    /\ ReportsIdle
    /\ AuthIdle
    /\ ScheduleIdle
    /\ ListIdle
    /\ FinalIdle
    /\ candidates \in [1..2 -> CandidateUrls]
    /\ candidates[1] # candidates[2]
    /\ artifacts = {}

\* saveResults for URL i: writeFile(jsonFilename, jsonData, { flag: 'w' })
\* with jsonFilename = `${baseFilename}.json`.
writeArtifact(i) ==
    /\ \A a \in artifacts : a.url # i
    /\ artifacts' = artifacts \cup {[name |-> generateBaseFilename(candidates[i]),
                                     url |-> i]}
    /\ UNCHANGED <<notNames, candidates>>

NextNames == \E i \in DOMAIN candidates : writeArtifact(i)

SpecNames == InitNames /\ [][NextNames]_vars

(***************************************************************************)
(* Claims about artifact names.                                            *)
(***************************************************************************)
\* C30: no file of a run is written for two URLs: the results of distinct
\* URLs have distinct base filenames.
C30_NoArtifactOverwritten ==
    \A a, b \in artifacts : a.name = b.name => a.url = b.url

(***************************************************************************)
(* Artifact files: saveResults' writeFile(jsonFilename, jsonData,          *)
(* { flag: 'w' }) and the readers of the file.                             *)
(*                                                                         *)
(* The payload of a file is Chunks pieces long.  jsonFile[f] tells whether *)
(* the file exists and how many pieces it holds.  writeFile opens it with  *)
(* flag 'w' (create or truncate), writes the data in one or more write     *)
(* calls, and closes; each step is a step of the run, and a reader (the    *)
(* summary stage, the dashboard) is another process.                       *)
(***************************************************************************)
MaxFiles == 2

Chunks == 2

MaxWrites == 2

notWrite == <<runVars, resolveVars, pipelineVars, filterVars, reportVars, authVars,
              scheduleVars, listVars, nameVars, againVars, overlapVars, raceVars,
              sessionVars>>

Absent == [exists |-> FALSE, pieces |-> 0]

Holding(pieces) == [exists |-> TRUE, pieces |-> pieces]

\* No artifact has been written: the run's results folder was just created.
InitWrite ==
    /\ RunIdle
    /\ ResolverIdle
    /\ PipelineIdle
    /\ FilterIdle
    /\ ReportsIdle
    /\ AuthIdle
    /\ ScheduleIdle
    /\ ListIdle
    /\ NamesIdle
    /\ AgainIdle
    /\ OverlapIdle
    /\ RaceIdle
    /\ SessionIdle
    /\ jsonFile = [f \in 1..MaxFiles |-> Absent]
    /\ writing = [f \in 1..MaxFiles |-> "idle"]
    /\ writes = [f \in 1..MaxFiles |-> 0]
    /\ seen = NotRead

\* writeFile, first step: open(jsonFilename, 'w') creates the file or
\* truncates the one that is there.
writeFileOpen(f) ==
    /\ writing[f] = "idle"
    /\ writes[f] < MaxWrites
    /\ jsonFile' = [jsonFile EXCEPT ![f] = Holding(0)]
    /\ writing' = [writing EXCEPT ![f] = "open"]
    /\ writes' = [writes EXCEPT ![f] = @ + 1]
    /\ UNCHANGED <<notWrite, seen>>

\* writeFile, the write loop: one write call appends at least one piece.
writeFileWrite(f) ==
    /\ writing[f] = "open"
    /\ jsonFile[f].pieces < Chunks
    /\ \E upTo \in (jsonFile[f].pieces + 1)..Chunks :
           jsonFile' = [jsonFile EXCEPT ![f] = Holding(upTo)]
    /\ UNCHANGED <<notWrite, writing, writes, seen>>

\* writeFile, last step: all data written, the handle is closed.
writeFileClose(f) ==
    /\ writing[f] = "open"
    /\ jsonFile[f].pieces = Chunks
    /\ writing' = [writing EXCEPT ![f] = "idle"]
    /\ UNCHANGED <<notWrite, jsonFile, writes, seen>>

\* A write call fails: writeFile rejects, the file stays as it is.
writeFileError(f) ==
    /\ writing[f] = "open"
    /\ jsonFile[f].pieces < Chunks
    /\ writing' = [writing EXCEPT ![f] = "idle"]
    /\ UNCHANGED <<notWrite, jsonFile, writes, seen>>

\* Another process reads the artifact and parses it.
readArtifact(f) ==
    /\ seen' = [file |-> f,
                content |-> IF ~jsonFile[f].exists THEN "missing"
                            ELSE IF jsonFile[f].pieces = Chunks THEN "complete"
                            ELSE "partial"]
    /\ UNCHANGED <<notWrite, jsonFile, writing, writes>>

NextWrite ==
    \E f \in 1..MaxFiles :
        \/ writeFileOpen(f)
        \/ writeFileWrite(f)
        \/ writeFileClose(f)
        \/ writeFileError(f)
        \/ readArtifact(f)

SpecWrite == InitWrite /\ [][NextWrite]_vars

(***************************************************************************)
(* Claims about artifact files.                                            *)
(***************************************************************************)
\* C31: a reader of an artifact file finds no file or one complete JSON
\* payload, never a partly written file.
C31_NoPartialFileSeen == seen.content \in {"none", "missing", "complete"}

(***************************************************************************)
(* Repeated resolution.  Every run of the pipeline spawns                  *)
(* `node script/generate-url-list.mjs`: the module is loaded, which        *)
(* creates visitedSitemaps, and `await main()` runs once.  Here the        *)
(* documents of the site are fixed (web), and one resolution is computed   *)
(* as the sequential program it is.                                        *)
(***************************************************************************)
MaxDocEntries == 2

MaxResolutions == 2

notAgain == <<runVars, pipelineVars, filterVars, reportVars, authVars, scheduleVars,
              listVars, nameVars, writeVars, overlapVars, raceVars, sessionVars>>

\* The documents a sitemap URL may serve.
Documents ==
    {[kind |-> "error", entries |-> <<>>]}
    \cup [kind : {"urlset"},
          entries : SeqsUpTo({Str("u1", "plain"), Str("u2", "padded"),
                              Str("u1", "nonhttp")}, MaxDocEntries)]
    \cup [kind : {"sitemapindex"},
          entries : SeqsUpTo({Str("s0", "canonical"), Str("s1", "canonical"),
                              Str("s2", "relative")}, MaxDocEntries)]

\* The state of a resolution: the module's Set, main's array, and whether
\* fetchSitemap threw.
Progress(visited, list, threw) == [visited |-> visited, collected |-> list, threw |-> threw]

\* The module's Set is kept from the process before.
KeptSet == visitedSitemaps

\* const visitedSitemaps = new Set(), evaluated when the module is loaded.
NewSet == {}

RECURSIVE collectUrlsFromSitemap(_, _)
RECURSIVE ForChildren(_, _, _)
\* collectUrlsFromSitemap(sitemapUrl, limit, collected)
collectUrlsFromSitemap(url, st) ==
    IF st.threw \/ LimitReached(st.collected) \/ url \in st.visited THEN st
    ELSE LET visited == st.visited \cup {url}
             doc == web[url.id]
         IN  CASE doc.kind = "error" -> Progress(visited, st.collected, TRUE)
               [] doc.kind = "urlset" ->
                      Progress(visited, CollectEntries(st.collected, doc.entries), FALSE)
               [] doc.kind = "sitemapindex" ->
                      ForChildren(url, doc.entries, Progress(visited, st.collected, FALSE))

\* for (const child of children)
ForChildren(base, children, st) ==
    IF children = <<>> \/ st.threw \/ LimitReached(st.collected) THEN st
    ELSE LET location == extractLocation(Head(children))
             resolved == resolveUrl(base, location)
         IN  ForChildren(base, Tail(children),
                         IF location.form = "empty" \/ resolved = Null
                            \/ ~isHttpUrl(resolved)
                         THEN st
                         ELSE collectUrlsFromSitemap(resolved, st))

\* The first process has loaded the module; the site serves `web`.
InitAgain ==
    /\ ResolverStart
    /\ sitemapUrl # Str("s0", "variant")
    /\ RunIdle
    /\ PipelineIdle
    /\ FilterIdle
    /\ ReportsIdle
    /\ AuthIdle
    /\ ScheduleIdle
    /\ ListIdle
    /\ NamesIdle
    /\ WriteIdle
    /\ OverlapIdle
    /\ RaceIdle
    /\ SessionIdle
    /\ web \in [SitemapIds -> Documents]
    /\ earlier = <<>>

\* await main(): from the settings to the written list, or to the throw.
mainToEnd ==
    /\ phase = "start"
    /\ IF sitemapUrl = NoUrl
       THEN /\ phase' = "skipped"
            /\ earlier' = Append(earlier, [phase |-> "skipped", list |-> <<>>])
            /\ UNCHANGED <<visitedSitemaps, collected, urlListFile>>
       ELSE LET end == collectUrlsFromSitemap(sitemapUrl,
                                              Progress(visitedSitemaps, <<>>, FALSE))
            IN  /\ visitedSitemaps' = end.visited
                /\ collected' = end.collected
                /\ phase' = IF end.threw THEN "failed" ELSE "done"
                /\ urlListFile' = IF end.threw THEN urlListFile ELSE Slice(end.collected)
                /\ earlier' = Append(earlier,
                                     [phase |-> IF end.threw THEN "failed" ELSE "done",
                                      list |-> IF end.threw THEN <<>>
                                               ELSE Slice(end.collected)])
    /\ UNCHANGED <<notAgain, sitemapUrl, limit, stack, fetched, seenLocations,
                   referenced, met, web>>

\* The next run of the pipeline spawns the script again: a new process
\* loads the module.
spawnAgain ==
    /\ phase \in {"skipped", "failed", "done"}
    /\ Len(earlier) < MaxResolutions
    /\ phase' = "start"
    /\ visitedSitemaps' = NewSet
    /\ collected' = <<>>
    /\ UNCHANGED <<notAgain, sitemapUrl, limit, stack, fetched, seenLocations,
                   referenced, met, urlListFile, web, earlier>>

NextAgain ==
    \/ mainToEnd
    \/ spawnAgain

SpecAgain == InitAgain /\ [][NextAgain]_vars

StageOrder == <<"generate", "reporter", "summary", "build">>

\* The stages started so far are the first ones of the order, and the
\* pipeline waits for the last of them unless it has ended.
StartedInOrder ==
    \E n \in 1..Len(StageOrder) :
       /\ started = {StageOrder[k] : k \in 1..n}
       /\ stage \in {StageOrder[n], "aborted", "completed"}

\* C34: the stages start in the order URL-list generation, reporter,
\* summary, build, each after the one before has exited with code 0; a
\* failure ends the pipeline and starts nothing more; and once the first
\* three stages have succeeded and the build is started, the pipeline can
\* end successfully.
C34_PipelineRunsToTheEnd ==
    /\ StartedInOrder
    /\ stage = "aborted" => abortedBy # "none"
    /\ stage = "build" => ENABLED (buildExit /\ stage' = "completed")

(***************************************************************************)
(* The audit run as a running program: node's event loop keeps serving     *)
(* timers and callbacks, so a step that can be taken is taken.             *)
(***************************************************************************)
SpecFair == Init /\ [][Next]_vars /\ WF_vars(Next)

\* The reporter process has ended.
Ended == proc \in {"done", "fatal", "uncaught"}

\* C33: every URL of the list is dispatched, once, and the run ends: the
\* global gate around the per-domain gate and the delay never blocks for
\* good, for every concurrency, every per-domain limit and every
\* distribution of the URLs over hostnames.  (A process killed by an
\* uncaught exception has audits that did not settle: it is left aside.)
C33_EveryUrlDispatchedRunEnds ==
    /\ <>Ended
    /\ [](proc \in {"done", "fatal"} => \A i \in Urls : pc[i] = "settled")
    /\ [][\A i \in Urls : Dispatched(i) => pc[i] \in {"queued", "domainQueue", "sleep"}]_vars

(***************************************************************************)
(* The resident scheduler with runs of any duration.  cron calls the       *)
(* callback at 03:00 whether or not an earlier maybeRunPipeline() has      *)
(* returned; a run lasts as long as its child processes take.              *)
(***************************************************************************)
MaxActive == 2

MaxChecks == 9

notOverlap == <<runVars, resolveVars, pipelineVars, filterVars, reportVars, authVars,
                listVars, nameVars, writeVars, againVars, raceVars, sessionVars>>

\* A run whose command `step` is executing; `stamp` is the time the
\* reporter took for its result folder.
PipelineRun(step, stamp) == [step |-> step, stamp |-> stamp]

Without(runs, k) == SubSeq(runs, 1, k - 1) \o SubSeq(runs, k + 1, Len(runs))

InitOverlap ==
    /\ RunIdle
    /\ ResolverIdle
    /\ PipelineIdle
    /\ FilterIdle
    /\ ReportsIdle
    /\ AuthIdle
    /\ ListIdle
    /\ NamesIdle
    /\ WriteIdle
    /\ AgainIdle
    /\ RaceIdle
    /\ SessionIdle
    /\ settingsFile \in SettingsChoices
    /\ day = 0
    /\ latestRun = NoRun
    /\ decision = NoDecision
    /\ runStep = "idle"
    /\ used = NothingLoaded
    /\ atStart = NoSettings
    /\ active = <<>>

\* The cron callback of 03:00: maybeRunPipeline() reloads the settings,
\* evaluates the schedule and, if a run is due, calls runPipeline().
cronCheck ==
    /\ day < MaxChecks
    /\ day' = day + 1
    /\ LET settings == getCurrentSettings
           shouldRun == evaluateSchedule(settings.frequency, day')
       IN  IF shouldRun
           THEN /\ Len(active) < MaxActive
                /\ active' = Append(active, PipelineRun("generate", NoRun))
           ELSE UNCHANGED active
    /\ UNCHANGED <<notOverlap, settingsFile, latestRun, decision, runStep, used, atStart>>

\* A child process of run k exits: with code 0 runPipeline spawns the next
\* command, and after the last one the run is runs[0] of the Reports Index;
\* with another code runPipeline rejects.
childExit(k) ==
    /\ k \in DOMAIN active
    /\ \E code \in {0, 1}, lag \in 0..(DayTicks - 1) :
          LET run == active[k]
          IN  IF code # 0
              THEN /\ active' = Without(active, k)
                   /\ UNCHANGED latestRun
              ELSE CASE run.step = "generate" ->
                            /\ active' = [active EXCEPT ![k] =
                                   PipelineRun("reporter", [day |-> day, lag |-> lag])]
                            /\ UNCHANGED latestRun
                     [] run.step = "reporter" ->
                            /\ active' = [active EXCEPT ![k] =
                                   PipelineRun("summary", run.stamp)]
                            /\ UNCHANGED latestRun
                     [] run.step = "summary" ->
                            /\ active' = Without(active, k)
                            /\ latestRun' = run.stamp
    /\ UNCHANGED <<notOverlap, settingsFile, day, decision, runStep, used, atStart>>

NextOverlap ==
    \/ cronCheck
    \/ \E k \in 1..MaxActive : childExit(k)

SpecOverlap == InitOverlap /\ [][NextOverlap]_vars

(***************************************************************************)
(* Further claims about the resident scheduler.                            *)
(***************************************************************************)
\* C35: at most one pipeline run is in progress; a check does not start a
\* run while an earlier run has not ended.
C35_OneRunAtATime == Len(active) <= 1

\* C36: the stages of one run work with the same settings: what the audit
\* stage loaded is what URL-list generation loaded, also when the settings
\* are saved while the run is in progress.
C36_OneSnapshotPerRun ==
    (used.generate # NoSettings /\ used.reporter # NoSettings) =>
        used.reporter = used.generate

(***************************************************************************)
(* The settings store of the dashboard: server/settings.ts behind          *)
(* GET / POST /api/settings.  The calls are async functions of one server  *)
(* process and interleave at their awaits.  data/settings.json holds the   *)
(* text "default", "v1" or "v2", or is "empty" while a writeFile has       *)
(* opened it and not yet written.                                          *)
(***************************************************************************)
MaxCalls == 3

notRace == <<runVars, resolveVars, pipelineVars, filterVars, reportVars, authVars,
             listVars, nameVars, writeVars, againVars, overlapVars, sessionVars,
             day, latestRun, decision, runStep, used, atStart>>

NoCall == [kind |-> "none", pc |-> "idle", payload |-> "", got |-> ""]

\* validateSettings(payload).valid
validateSettings(payload) == payload \in {"default", "v1", "v2"}

\* JSON.parse(content), normalizeSettings and validateSettingsValue pass.
Readable(content) == content # "empty" /\ validateSettings(content)

\* The server is up; data/settings.json holds valid settings.
InitRace ==
    /\ RunIdle
    /\ ResolverIdle
    /\ PipelineIdle
    /\ FilterIdle
    /\ ReportsIdle
    /\ AuthIdle
    /\ ListIdle
    /\ NamesIdle
    /\ WriteIdle
    /\ AgainIdle
    /\ OverlapIdle
    /\ SessionIdle
    /\ settingsFile \in {"default", "v1"}
    /\ day = 0
    /\ latestRun = NoRun
    /\ decision = NoDecision
    /\ runStep = "idle"
    /\ used = NothingLoaded
    /\ atStart = NoSettings
    /\ calls = [c \in 1..MaxCalls |-> NoCall]
    /\ lastSaved = "none"

\* POST /api/settings: saveSettings(payload) up to its writeFile; a payload
\* that fails validation is rejected.
saveSettingsCall(c) ==
    /\ calls[c] = NoCall
    /\ \E payload \in {"v1", "v2", "bad"} :
          calls' = [calls EXCEPT ![c] =
                       [kind |-> "save",
                        pc |-> IF validateSettings(payload) THEN "open" ELSE "rejected",
                        payload |-> payload, got |-> ""]]
    /\ UNCHANGED <<notRace, settingsFile, lastSaved>>

\* writeFile(SETTINGS_FILE_PATH, ...) of a save or of the catch block of
\* readSettings: the file is opened and truncated.
writeFileTruncates(c) ==
    /\ calls[c].pc = "open"
    /\ settingsFile' = "empty"
    /\ calls' = [calls EXCEPT ![c].pc = "write"]
    /\ UNCHANGED <<notRace, lastSaved>>

\* writeFile writes the text and closes; the call returns.
writeFileWrites(c) ==
    /\ calls[c].pc = "write"
    /\ settingsFile' = calls[c].payload
    /\ lastSaved' = IF calls[c].kind = "save" THEN calls[c].payload ELSE lastSaved
    /\ calls' = [calls EXCEPT ![c].pc = "done"]
    /\ UNCHANGED notRace

\* GET /api/settings: readSettings() is called.
readSettingsCall(c) ==
    /\ calls[c] = NoCall
    /\ calls' = [calls EXCEPT ![c] = [NoCall EXCEPT !.kind = "read", !.pc = "readFile"]]
    /\ UNCHANGED <<notRace, settingsFile, lastSaved>>

\* readSettings: readFile returns the text; it is parsed and validated, and
\* returned, or the catch block starts to write the default settings.
readFileReturns(c) ==
    /\ calls[c].pc = "readFile"
    /\ calls' = [calls EXCEPT ![c] =
                    IF Readable(settingsFile)
                    THEN [@ EXCEPT !.pc = "done", !.got = settingsFile]
                    ELSE [@ EXCEPT !.pc = "open", !.got = "default",
                                   !.payload = "default"]]
    /\ UNCHANGED <<notRace, settingsFile, lastSaved>>

NextRace ==
    \E c \in 1..MaxCalls :
        \/ saveSettingsCall(c)
        \/ writeFileTruncates(c)
        \/ writeFileWrites(c)
        \/ readSettingsCall(c)
        \/ readFileReturns(c)

SpecRace == InitRace /\ [][NextRace]_vars

(***************************************************************************)
(* Claims about the settings store.                                        *)
(***************************************************************************)
\* Every call that was made has returned or thrown.
AllCallsEnded == \A c \in 1..MaxCalls : calls[c].pc \in {"idle", "done", "rejected"}

\* C37: when all calls have ended and a save has succeeded, the settings
\* file holds the value of the last successful save: never the default
\* settings in its place, whatever the interleaving.
C37_SavedSettingsStay ==
    (AllCallsEnded /\ lastSaved # "none") => settingsFile = lastSaved

(***************************************************************************)
(* Login and logout: pages/api/login.ts and logout.ts with server/auth.ts. *)
(*                                                                         *)
(* A text is null or a sequence of characters; "e'" is a character that    *)
(* takes two bytes in UTF-8.                                               *)
(***************************************************************************)
notSession == <<runVars, resolveVars, pipelineVars, filterVars, reportVars, scheduleVars,
                listVars, nameVars, writeVars, againVars, overlapVars, raceVars>>

Text(chars) == [null |-> FALSE, chars |-> chars]

NullText == [null |-> TRUE, chars |-> <<>>]

\* !value, for a string or null.
Falsy(text) == text.null \/ text.chars = <<>>

\* Buffer.from(string): the UTF-8 bytes.
RECURSIVE BufferFrom(_)
BufferFrom(chars) ==
    IF chars = <<>> THEN <<>>
    ELSE (CASE Head(chars) = "a" -> <<97>>
            [] Head(chars) = "b" -> <<98>>
            [] Head(chars) = "e'" -> <<195, 169>>) \o BufferFrom(Tail(chars))

\* The credentials are compared by the lengths of their buffers only.
verifyCredentialsByLength(username, password, adminUsername, adminPassword) ==
    /\ ~Falsy(adminUsername) /\ ~Falsy(adminPassword)
    /\ ~Falsy(username) /\ ~Falsy(password)
    /\ Len(BufferFrom(username.chars)) = Len(BufferFrom(adminUsername.chars))
    /\ Len(BufferFrom(password.chars)) = Len(BufferFrom(adminPassword.chars))

\* verifyCredentials(username, password), with the configured
\* ADMIN_USERNAME and ADMIN_PASSWORD.
verifyCredentials(username, password, adminUsername, adminPassword) ==
    /\ ~Falsy(adminUsername) /\ ~Falsy(adminPassword)
    /\ ~Falsy(username) /\ ~Falsy(password)
    /\ Len(BufferFrom(username.chars)) = Len(BufferFrom(adminUsername.chars))
    /\ Len(BufferFrom(password.chars)) = Len(BufferFrom(adminPassword.chars))
    /\ BufferFrom(username.chars) = BufferFrom(adminUsername.chars)
    /\ BufferFrom(password.chars) = BufferFrom(adminPassword.chars)

\* safeRedirectTarget(value) of login.ts
safeRedirectTarget(value) == IF value \in {"/x"} THEN value ELSE "/"

\* The values of ADMIN_USERNAME / ADMIN_PASSWORD (unset reads as "").
AdminTexts == {Text(<<>>), Text(<<"a">>), Text(<<"e'">>)}

\* What a client may send as username or password.
SuppliedTexts ==
    {NullText, Text(<<>>), Text(<<"a">>), Text(<<"b">>), Text(<<"e'">>),
     Text(<<"a", "a">>)}

\* POST /api/login
login ==
    /\ \E username, password \in SuppliedTexts, adminUsername, adminPassword \in AdminTexts,
          rememberMe \in BOOLEAN, redirectParam \in {"", "/x", "//evil"} :
          LET asked == [username |-> username, password |-> password,
                        adminUsername |-> adminUsername,
                        adminPassword |-> adminPassword, before |-> cookie]
              reply(status, location, error, session) ==
                  [status |-> status, location |-> location, error |-> error,
                   session |-> session, asked |-> asked]
          IN  IF ~authEnabled
              THEN /\ loginAnswer' = reply(403, "", "Authentication is disabled.", FALSE)
                   /\ UNCHANGED <<cookie, issued>>
              ELSE IF ~verifyCredentials(username, password, adminUsername, adminPassword)
              THEN /\ loginAnswer' = reply(303, "/login", "invalid", FALSE)
                   /\ UNCHANGED <<cookie, issued>>
              ELSE /\ cookie' = buildToken([sub |-> "admin",
                                            exp |-> resolveExpiry(rememberMe)])
                   /\ issued' = [at |-> now, rememberMe |-> rememberMe]
                   /\ loginAnswer' = reply(303, safeRedirectTarget(redirectParam), "", TRUE)
    /\ UNCHANGED <<notSession, authEnabled, now, answer, revoked>>

NextLogin == login

SpecLogin == InitAuth /\ [][NextLogin]_vars

\* GET / POST /api/logout: clearSession(cookies, request) makes the browser
\* drop the cookie; with authentication disabled the answer is 204.
logout ==
    /\ IF authEnabled
       THEN /\ revoked' = [token |-> cookie, at |-> now]
            /\ cookie' = NoToken
       ELSE UNCHANGED <<revoked, cookie>>
    /\ UNCHANGED <<notSession, authEnabled, now, issued, answer, loginAnswer>>

\* A request arrives that carries the token the browser held before the
\* logout (kept by a client, a proxy or whoever had read it).
replay ==
    /\ revoked.token # NoToken
    /\ \E pathname \in {Path(<<>>, ""), Path(<<"api", "settings">>, "")} :
          answer' = [method |-> "GET", path |-> pathname, token |-> revoked.token,
                     at |-> now, result |-> onRequest("GET", pathname, revoked.token)]
    /\ UNCHANGED <<notSession, authEnabled, now, cookie, issued, loginAnswer, revoked>>

NextLogout ==
    \/ advanceClock
    \/ createSession
    \/ logout
    \/ replay

SpecLogout == InitAuth /\ [][NextLogout]_vars

(***************************************************************************)
(* Further claims about sessions.                                          *)
(***************************************************************************)
\* C40: with authentication enabled, a GET for /login that carries a valid
\* session is redirected to "/", and one without a valid session is shown
\* the login page.
C40_LoginPageRedirectsSession ==
    (/\ authEnabled
     /\ answer.result # "none"
     /\ answer.method = "GET"
     /\ answer.path = Path(<<"login">>, "")) =>
        answer.result = (IF ValidSession(answer.token, answer.at)
                         THEN "redirect /" ELSE "next")

\* The login request answered last came with the configured, non-empty
\* admin username and password while authentication was enabled.
RightCredentials ==
    LET asked == loginAnswer.asked
    IN  /\ authEnabled
        /\ asked.adminUsername.chars # <<>>
        /\ asked.adminPassword.chars # <<>>
        /\ asked.username = asked.adminUsername
        /\ asked.password = asked.adminPassword

C39_LogoutEndsSession ==
    (/\ authEnabled
     /\ revoked.token # NoToken
     /\ answer.token = revoked.token
     /\ answer.at > revoked.at) =>
        answer.result \in {"redirect /login", "401"}
====
